---- MODULE Spec2Model ----
(***************************************************************************)
(* Model of scripts/plot.py: the Database class, which normalises the raw  *)
(* solver event rows into the problem, flatzinc, configuration, run and    *)
(* event dataframes and then derives the metric columns (improve).         *)
(*                                                                         *)
(* Dataframes are sequences of records (row i of a frame is element i).    *)
(* A nullable cell is a set with at most one element: {} is null and {v}   *)
(* is the value v, so that arithmetic on cells propagates nulls and the    *)
(* aggregations skip them, as polars does.  Strings are sequences of       *)
(* character codes, ordered lexically.  The counters num_conflicts,        *)
(* num_dom_updates and num_restarts are carried through untouched by every *)
(* operation of the class and are left out of the rows.                    *)
(***************************************************************************)
EXTENDS Integers, Sequences, FiniteSets, TLC

VARIABLES results_dir, pc, error, stderr, raw_df, problem_df, flatzinc_df,
          configuration_df, run_df, event_df, built, args, num_improve, caller

vars == <<results_dir, pc, error, stderr, raw_df, problem_df, flatzinc_df,
          configuration_df, run_df, event_df, built, args, num_improve, caller>>

\* The state of the command line run: the parsed arguments, the number of
\* calls of improve on the Database of the run, and the caller of the
\* current call of improve.
cli == <<args, num_improve, caller>>

----------------------------------------------------------------------------
(* Bounds of the model.                                                    *)

MaxRows == 2
MaxRunRows == 4
MaxTieRows == 2
MaxDirs == 2
MaxTime == 1
MaxReads == 2

----------------------------------------------------------------------------
(* Nullable cells.                                                         *)

Null == {}

The(x) == CHOOSE v \in x : TRUE

\* pl.min / pl.max over a column: nulls are skipped, an empty or all-null
\* column gives null.  S is the set of the non-null values.
MinOf(S) == IF S = {} THEN Null ELSE {CHOOSE m \in S : \A y \in S : m <= y}

MaxOf(S) == IF S = {} THEN Null ELSE {CHOOSE m \in S : \A y \in S : m >= y}

----------------------------------------------------------------------------
(* Strings and the sort order of the key columns.                          *)

Underscore == 95

\* Lexical order of two strings (Categorical(ordering="lexical")).
RECURSIVE StrLess(_, _)
StrLess(s, t) ==
    IF t = <<>> THEN FALSE
    ELSE IF s = <<>> THEN TRUE
    ELSE IF Head(s) # Head(t) THEN Head(s) < Head(t)
    ELSE StrLess(Tail(s), Tail(t))

\* Order of two nullable strings in DataFrame.sort: nulls first.
NameLess(x, y) ==
    IF x = Null THEN y # Null
    ELSE y # Null /\ StrLess(The(x), The(y))

\* Order of two nullable integers in DataFrame.sort: nulls first.
IntLess(x, y) ==
    IF x = Null THEN y # Null
    ELSE y # Null /\ The(x) < The(y)

\* DataFrame.unique(): the distinct rows.  The order of the result is not
\* specified; every use below sorts or joins it, which decides the order.
\* Here each row stands at its first occurrence.
RECURSIVE Unique(_)
Unique(s) ==
    IF s = <<>> THEN <<>>
    ELSE LET rest == Unique(SubSeq(s, 1, Len(s) - 1))
             last == s[Len(s)]
         IN  IF \E i \in 1..Len(rest) : rest[i] = last THEN rest
             ELSE Append(rest, last)

\* The orders of the indices Ix in which no index comes after one it is
\* less than; less[i, j] says that row i sorts strictly before row j.
RECURSIVE SortedOrders(_, _)
SortedOrders(Ix, less) ==
    IF Ix = {} THEN {<<>>}
    ELSE UNION {{<<i>> \o rest : rest \in SortedOrders(Ix \ {i}, less)} :
                  i \in {k \in Ix : \A j \in Ix : ~less[j, k]}}

\* DataFrame.sort(...) with the default maintain_order=False: the rows in
\* ascending key order, rows of equal key in any order.
Sort(s, Less(_, _)) ==
    LET less == [i \in 1..Len(s), j \in 1..Len(s) |-> Less(s[i], s[j])]
    IN  {[k \in 1..Len(s) |-> s[o[k]]] : o \in SortedOrders(1..Len(s), less)}

\* DataFrame.with_row_index("id"): row i gets id i - 1.
WithRowIndex(s) == [i \in 1..Len(s) |-> s[i] @@ [id |-> i - 1]]

\* Series.is_unique().all(): no two rows of the frame are equal.
IsUnique(s) == \A i, j \in 1..Len(s) : s[i] = s[j] => i = j

RECURSIVE Concat(_)
Concat(ss) == IF ss = <<>> THEN <<>> ELSE Head(ss) \o Concat(Tail(ss))

\* The frame made of the rows F(r), r a row of s, in the order of s.
Map(s, F(_)) == [i \in 1..Len(s) |-> F(s[i])]

\* DataFrame.join(how="inner"): for each left row, in order, one row
\* Row(l, r) per right row r with On(l, r); a null key matches nothing
\* (On is false on nulls).
InnerJoin(left, right, On(_, _), Row(_, _)) ==
    Concat(Map(left, LAMBDA l :
        Map(SelectSeq(right, LAMBDA r : On(l, r)), LAMBDA r : Row(l, r))))

\* DataFrame.join(how="left"): as the inner join, and a left row without a
\* match is kept once, as Miss(l) (the right columns null).
LeftJoin(left, right, On(_, _), Row(_, _), Miss(_)) ==
    Concat(Map(left, LAMBDA l :
        LET m == SelectSeq(right, LAMBDA r : On(l, r))
        IN  IF m = <<>> THEN <<Miss(l)>> ELSE Map(m, LAMBDA r : Row(l, r))))

\* Equality of two non-null cells, as a join key.
KeyEq(x, y) == x # Null /\ y # Null /\ x = y

----------------------------------------------------------------------------
(* The results directories the model reads.  A results directory maps the  *)
(* name of each configuration subdirectory to the rows of its results.csv. *)

Cfg_a_b_n == <<97, 95, 98, 95, 110>>
Cfg_c_d_l == <<99, 95, 100, 95, 108>>
Cfg_x_y == <<120, 95, 121>>
Cfg_a_b_c_d == <<97, 95, 98, 95, 99, 95, 100>>

Cfg_a_b_none == <<97, 95, 98, 95, 110, 111, 110, 101>>
Cfg_c_d_luby == <<99, 95, 100, 95, 108, 117, 98, 121>>

GoodNames == {Cfg_a_b_n, Cfg_c_d_l}
AllNames == GoodNames \cup {Cfg_x_y, Cfg_a_b_c_d}

P == <<80>>
Q == <<81>>
I == <<73>>
J == <<74>>

\* The row of a results.csv at position i of its file: the counters grow
\* along the file and the first row is the start event.
CsvRow(c, i) ==
    [problem |-> c.problem, flatzinc |-> c.flatzinc,
     type |-> IF i = 1 THEN "start" ELSE "new_solution",
     num_solutions |-> i - 1, objective |-> c.objective,
     time |-> IF c.time = Null THEN i - 1 ELSE The(c.time),
     num_decisions |-> i]

Csv(cells) == [i \in 1..Len(cells) |-> CsvRow(cells[i], i)]

\* Rows that differ in their keys: two problems, two instances of one
\* problem, one instance name under two problems, a missing problem name and
\* a missing instance name (an empty CSV field is read as null).  The time
\* of a row is its position in its file.
KeyCells ==
    {[problem |-> k[1], flatzinc |-> k[2], objective |-> 0, time |-> Null] :
        k \in {<<{P}, {J}>>, <<{Q}, {I}>>, <<{P}, {I}>>, <<Null, {I}>>, <<{P}, Null>>}}

\* Rows that differ in their objectives, drawn from Os, for one instance of
\* each of the problems Ps; the time of a row is its position in its file.
ObjCells(Ps, Os) ==
    {[problem |-> {p}, flatzinc |-> {I}, objective |-> o, time |-> Null] :
        p \in Ps, o \in Os}

\* Rows of one run whose objectives and times both vary.
TieCells ==
    {[problem |-> {P}, flatzinc |-> {I}, objective |-> o, time |-> {t}] :
        o \in 1..2, t \in 0..MaxTime}

\* The assignments of at least one row to each directory of D, n rows at
\* most in all.
RECURSIVE DirsFor(_, _, _)
DirsFor(D, Cells, n) ==
    IF D = {} THEN {<<>>}
    ELSE LET d == CHOOSE x \in D : TRUE
         IN  UNION {{(d :> Csv(s)) @@ rest :
                        s \in [1..k -> Cells],
                        rest \in DirsFor(D \ {d}, Cells, n - k)} :
                    k \in 1..(n - (Cardinality(D) - 1))}

DirsOver(Names, Cells, n) ==
    UNION {DirsFor(D, Cells, n) :
             D \in {E \in SUBSET Names : E # {} /\ Cardinality(E) <= MaxDirs}}

\* The results of two configurations on one instance of one problem: a_b_none
\* starts at objective 0 and time 0 and finds 10 at time 100 and 5 at time
\* 200, c_d_luby starts the same and finds 8 at time 50.
TwoConfigurations ==
    LET Cell(o, t) == [problem |-> {P}, flatzinc |-> {I}, objective |-> o, time |-> {t}]
    IN  (Cfg_a_b_none :> Csv(<<Cell(0, 0), Cell(10, 100), Cell(5, 200)>>))
        @@ (Cfg_c_d_luby :> Csv(<<Cell(0, 0), Cell(8, 50)>>))

\* The results of a run on the instance I of P: a start event at time 0
\* and two solutions, at times t and t + 1, of objectives o[1], o[2], o[3].
RunCsv(o, t) ==
    LET Cell(k, time) == [problem |-> {P}, flatzinc |-> {I}, objective |-> o[k],
                          time |-> {time}]
    IN  Csv(<<Cell(1, 0), Cell(2, t), Cell(3, t + 1)>>)

\* Two runs of one instance whose solutions are found at the same or at
\* different times.
TwoRuns ==
    {(Cfg_a_b_n :> RunCsv(a, 1)) @@ (Cfg_c_d_l :> RunCsv(b, t)) :
        a \in [1..3 -> 1..2], b \in [1..3 -> 1..2], t \in 1..2}

\* Two runs of one instance whose solutions are found at the same times,
\* after the one solution of a third run.
ThreeRuns ==
    {(Cfg_a_b_n :> RunCsv(a, 2)) @@ (Cfg_c_d_l :> RunCsv(b, 2))
        @@ (Cfg_a_b_none :> SubSeq(RunCsv([k \in 1..3 |-> c], 1), 1, 2)) :
        a \in [1..3 -> 1..2], b \in [1..3 -> 1..2], c \in 1..2}

\* A run whose second solution is written with an earlier time than its
\* first: in time order its num_decisions decrease.
ReversedRuns ==
    LET Cell(o, time) == [problem |-> {P}, flatzinc |-> {I}, objective |-> o,
                          time |-> {time}]
    IN  {(Cfg_a_b_n :> Csv(<<Cell(o[1], 0), Cell(o[2], 2), Cell(o[3], 1)>>)) :
            o \in [1..3 -> 1..2]}

\* A run of two events that are both of type start, next to a run with two
\* solutions on the same instance.
StartOnlyRuns ==
    LET Cell(o) == [problem |-> {P}, flatzinc |-> {I}, objective |-> o,
                    time |-> Null]
        Starts(rows) == [i \in 1..Len(rows) |-> [rows[i] EXCEPT !.type = "start"]]
    IN  {(Cfg_a_b_n :> Starts(Csv(<<Cell(o[1]), Cell(o[2])>>)))
            @@ (Cfg_c_d_l :> RunCsv(b, 1)) :
            o \in [1..2 -> 1..2], b \in [1..3 -> 1..2]}

ResultsDirs ==
    {TwoConfigurations} \cup TwoRuns \cup ThreeRuns \cup ReversedRuns
    \cup StartOnlyRuns \cup
    DirsOver({Cfg_c_d_l}, KeyCells, MaxRows)
    \cup DirsOver(GoodNames, ObjCells({P, Q}, 1..2), MaxRows)
    \cup DirsOver(GoodNames, ObjCells({P}, 1..3), MaxRunRows)
    \cup DirsOver({Cfg_a_b_n}, TieCells, MaxTieRows)
    \cup DirsOver(AllNames, {[problem |-> {P}, flatzinc |-> {I},
                              objective |-> 0, time |-> Null]}, MaxDirs)

----------------------------------------------------------------------------
(* Database.read: the builders of the five dataframes.                     *)

\* The orders in which iterdir() may list the directories.
IterDir(dir) ==
    LET D == DOMAIN dir
    IN  {o \in [1..Cardinality(D) -> D] : {o[i] : i \in 1..Cardinality(D)} = D}

\* read_raw_df: the files concatenated in the order of the listing, each
\* row tagged with the name of its directory.
ReadRawDf(dir, order) ==
    Concat(Map(order, LAMBDA d :
        Map(dir[d], LAMBDA r : [configuration |-> {d}] @@ r)))

MakeProblemDf(raw) ==
    LET df == Unique(Map(raw, LAMBDA r : [name |-> r.problem]))
    IN  {WithRowIndex(s) : s \in Sort(df, LAMBDA a, b : NameLess(a.name, b.name))}

\* The sort of make_flatzinc_df on the name alone.
FlatzincLess_ByName(a, b) == NameLess(a.name, b.name)

\* The order of the sort on ("problem.id", "name").
FlatzincLess(a, b) ==
    \/ IntLess(a.problem_id, b.problem_id)
    \/ a.problem_id = b.problem_id /\ NameLess(a.name, b.name)

\* make_flatzinc_df up to the sort.
FlatzincRows(raw, problems) ==
    LET df == Unique(Map(raw, LAMBDA r : [problem |-> r.problem, flatzinc |-> r.flatzinc]))
        joined == LeftJoin(df, problems,
                      LAMBDA l, r : KeyEq(l.problem, r.name),
                      LAMBDA l, r : [name |-> l.flatzinc, problem_id |-> {r.id}],
                      LAMBDA l : [name |-> l.flatzinc, problem_id |-> Null])
    IN  Sort(joined, FlatzincLess)

\* str.split on a separator: the parts of the string.
RECURSIVE Split(_, _)
Split(s, sep) ==
    IF \A i \in 1..Len(s) : s[i] # sep THEN <<s>>
    ELSE LET k == CHOOSE i \in 1..Len(s) :
                     s[i] = sep /\ \A j \in 1..(i - 1) : s[j] # sep
         IN  <<SubSeq(s, 1, k - 1)>> \o Split(SubSeq(s, k + 1, Len(s)), sep)

\* str.split_exact(sep, n): a struct of n + 1 fields, the first n + 1 parts
\* of the string; a field without a part is null and parts beyond are left
\* out.
SplitExact(s, sep, n) ==
    LET parts == Split(s, sep)
    IN  [i \in 1..(n + 1) |-> IF i <= Len(parts) THEN {parts[i]} ELSE Null]

\* make_configuration_df up to the check of the names.
ConfigurationFields(raw) ==
    LET df == Unique(Map(raw, LAMBDA r : [configuration |-> r.configuration]))
    IN  Map(df, LAMBDA r :
            LET f == SplitExact(The(r.configuration), Underscore, 2)
            IN  [name |-> r.configuration, var_order |-> f[1],
                 value_order |-> f[2], restart |-> f[3]])

\* The join of the flatzinc and problem dataframes of make_run_df and
\* make_event_df.
FznDf(flatzincs, problems) ==
    InnerJoin(flatzincs, problems,
        LAMBDA l, r : KeyEq(l.problem_id, {r.id}),
        LAMBDA l, r : [flatzinc_id |-> l.id, flatzinc_name |-> l.name,
                       problem_id |-> l.problem_id, problem_name |-> r.name])

RunLess(a, b) ==
    \/ a.flatzinc_id < b.flatzinc_id
    \/ a.flatzinc_id = b.flatzinc_id /\ a.configuration_id < b.configuration_id

\* make_run_df up to the uniqueness check.
RunPairs(raw, problems, flatzincs, configurations) ==
    LET fzn_df == FznDf(flatzincs, problems)
        df == Unique(Map(raw, LAMBDA r : [configuration |-> r.configuration,
                                          problem |-> r.problem,
                                          flatzinc |-> r.flatzinc]))
        with_fzn == InnerJoin(df, fzn_df,
                        LAMBDA l, r : /\ KeyEq(l.problem, r.problem_name)
                                      /\ KeyEq(l.flatzinc, r.flatzinc_name),
                        LAMBDA l, r : [configuration |-> l.configuration,
                                       flatzinc_id |-> r.flatzinc_id])
    IN  InnerJoin(with_fzn, configurations,
            LAMBDA l, r : KeyEq(l.configuration, r.name),
            LAMBDA l, r : [flatzinc_id |-> l.flatzinc_id,
                           configuration_id |-> r.id])

\* The sort of make_event_df on the run alone.
EventLess_RunOnly(a, b) == IntLess(a.run_id, b.run_id)

EventLess(a, b) ==
    \/ IntLess(a.run_id, b.run_id)
    \/ a.run_id = b.run_id /\ a.time < b.time

\* make_event_df up to the sort.
EventRows(raw, problems, flatzincs, configurations, runs) ==
    LET fzn_df == FznDf(flatzincs, problems)
        with_fzn == LeftJoin(runs, fzn_df,
                        LAMBDA l, r : l.flatzinc_id = r.flatzinc_id,
                        LAMBDA l, r : [run_id |-> l.id,
                                       configuration_id |-> l.configuration_id,
                                       problem_name |-> r.problem_name,
                                       flatzinc_name |-> r.flatzinc_name],
                        LAMBDA l : [run_id |-> l.id,
                                    configuration_id |-> l.configuration_id,
                                    problem_name |-> Null,
                                    flatzinc_name |-> Null])
        id_df == LeftJoin(with_fzn, configurations,
                        LAMBDA l, r : l.configuration_id = r.id,
                        LAMBDA l, r : [run_id |-> l.run_id,
                                       configuration_name |-> r.name,
                                       problem_name |-> l.problem_name,
                                       flatzinc_name |-> l.flatzinc_name],
                        LAMBDA l : [run_id |-> l.run_id,
                                    configuration_name |-> Null,
                                    problem_name |-> l.problem_name,
                                    flatzinc_name |-> l.flatzinc_name])
        Event(l, run) ==
            [run_id |-> run, type |-> l.type, num_solutions |-> l.num_solutions,
             objective |-> l.objective, time |-> l.time,
             num_decisions |-> l.num_decisions]
    IN  LeftJoin(raw, id_df,
            LAMBDA l, r : /\ KeyEq(l.configuration, r.configuration_name)
                          /\ KeyEq(l.problem, r.problem_name)
                          /\ KeyEq(l.flatzinc, r.flatzinc_name),
            LAMBDA l, r : Event(l, {r.run_id}),
            LAMBDA l : Event(l, Null))

----------------------------------------------------------------------------
(* Database.improve: the passes that add the metric columns.               *)

\* The keys of group_by: the distinct values of the key, in no particular
\* order.
GroupKeys(s, Key(_)) == Unique(Map(s, Key))

\* The rows of a group, in the order of the frame.
Group(s, Key(_), g) == SelectSeq(s, LAMBDA r : Key(r) = g)

\* (objective - objective.shift() > 0).any() over the rows of one run.
Increase(rows) ==
    \E i \in 2..Len(rows) : rows[i].objective - rows[i - 1].objective > 0

\* (objective - objective.shift() < 0).any() over the rows of one run.
Decrease(rows) ==
    \E i \in 2..Len(rows) : rows[i].objective - rows[i - 1].objective < 0

\* add_problem_type: increase, decrease and monotonic of every run.id.
RunTrends(events) ==
    Map(GroupKeys(events, LAMBDA e : e.run_id), LAMBDA g :
        LET rows == Group(events, LAMBDA e : e.run_id, g)
        IN  [run_id |-> g, increase |-> Increase(rows), decrease |-> Decrease(rows),
             monotonic |-> ~Increase(rows) \/ ~Decrease(rows)])

\* add_problem_type: the trends joined to their run, instance and problem.
TrendsOfProblems(trends, runs, flatzincs, problems) ==
    LET with_run == InnerJoin(trends, runs,
                        LAMBDA l, r : KeyEq(l.run_id, {r.id}),
                        LAMBDA l, r : l @@ [flatzinc_id |-> r.flatzinc_id,
                                            configuration_id |-> r.configuration_id])
        with_fzn == InnerJoin(with_run, flatzincs,
                        LAMBDA l, r : l.flatzinc_id = r.id,
                        LAMBDA l, r : l @@ [flatzinc_name |-> r.name,
                                            problem_id |-> r.problem_id])
    IN  InnerJoin(with_fzn, problems,
            LAMBDA l, r : KeyEq(l.problem_id, {r.id}),
            LAMBDA l, r : l @@ [problem_name |-> r.name])

\* add_problem_type: the runs that are not monotonic, by name.
NotMonotonic(trends, runs, configurations, flatzincs, problems) ==
    LET bad == SelectSeq(trends, LAMBDA t : ~t.monotonic)
        named == InnerJoin(TrendsOfProblems(bad, runs, flatzincs, problems),
                     configurations,
                     LAMBDA l, r : l.configuration_id = r.id,
                     LAMBDA l, r : [problem_name |-> l.problem_name,
                                    flatzinc_name |-> l.flatzinc_name,
                                    configuration_name |-> r.name])
    IN  named

\* add_problem_type: per problem, whether a run increases and how many runs
\* increase and decrease.
ProblemTrends(joined) ==
    LET Key(r) == <<r.problem_id, r.problem_name>>
    IN  Map(GroupKeys(joined, Key), LAMBDA g :
            LET rows == Group(joined, Key, g)
            IN  [id |-> The(g[1]), name |-> g[2],
                 increase |-> \E i \in 1..Len(rows) : rows[i].increase,
                 num_increase |-> Cardinality({i \in 1..Len(rows) : rows[i].increase}),
                 num_decrease |-> Cardinality({i \in 1..Len(rows) : rows[i].decrease})])

\* The filter with its second condition inverted.
ProblemsWithBoth_Inverted(df) ==
    SelectSeq(df, LAMBDA t : t.num_decrease # 0 /\ t.num_increase = 0)

\* Get problems with both increasing and decreasing runs.
ProblemsWithBoth(df) ==
    SelectSeq(df, LAMBDA t : t.num_decrease # 0 /\ t.num_increase # 0)

\* The two types exchanged.
ProblemType_Swapped(t) == IF t.increase THEN "minimize" ELSE "maximize"

\* Problem is maximise iff increase.
ProblemType(t) == IF t.increase THEN "maximize" ELSE "minimize"

\* Series.is_sorted() of a column of nullable strings.
NamesSorted(s) == \A i, j \in 1..Len(s) : i < j => ~NameLess(s[j].name, s[i].name)

\* Series.is_sorted() of the id column.
IdsSorted(s) == \A i, j \in 1..Len(s) : i < j => s[i].id <= s[j].id

\* propagate_type_to_flatzinc.
PropagateType(flatzincs, problems) ==
    LeftJoin(flatzincs, problems,
        LAMBDA l, r : KeyEq(l.problem_id, {r.id}),
        LAMBDA l, r : l @@ [problem_type |-> r.type],
        LAMBDA l : l @@ [problem_type |-> Null])

\* The best bound with its branches exchanged.
BestBound_Swapped(type, lb, ub) == IF type = {"minimize"} THEN ub ELSE lb

\* pl.when(problem.type == "minimize").then(lb).otherwise(ub): a null type
\* takes the otherwise branch.
BestBound(type, lb, ub) == IF type = {"minimize"} THEN lb ELSE ub

WorstBound(type, lb, ub) == IF type = {"minimize"} THEN ub ELSE lb

\* add_objective_bounds: the run dataframe joined to the bounds of its
\* events and to the type of its problem, with the best and worst bounds.
RunBounds(runs, events, flatzincs) ==
    LET bounds == Map(GroupKeys(events, LAMBDA e : e.run_id), LAMBDA g :
                      LET objs == {e.objective : e \in
                                     {events[i] : i \in {j \in 1..Len(events) :
                                                           events[j].run_id = g}}}
                      IN  [run_id |-> g, objective_lb |-> MinOf(objs),
                           objective_ub |-> MaxOf(objs)])
        with_bounds == LeftJoin(runs, bounds,
                           LAMBDA l, r : KeyEq({l.id}, r.run_id),
                           LAMBDA l, r : l @@ [objective_lb |-> r.objective_lb,
                                               objective_ub |-> r.objective_ub],
                           LAMBDA l : l @@ [objective_lb |-> Null,
                                            objective_ub |-> Null])
        with_type == InnerJoin(with_bounds, flatzincs,
                         LAMBDA l, r : l.flatzinc_id = r.id,
                         LAMBDA l, r : l @@ [problem_type |-> r.problem_type])
    IN  Map(with_type, LAMBDA r :
            r @@ [objective_bb |-> BestBound(r.problem_type, r.objective_lb, r.objective_ub),
                  objective_wb |-> WorstBound(r.problem_type, r.objective_lb, r.objective_ub)])

\* The columns of a row other than the named ones.
Drop(r, cols) == [c \in (DOMAIN r) \ cols |-> r[c]]

\* add_objective_bounds: the bounds of every instance that has a run.
FlatzincBounds(bounded) ==
    LET Key(r) == <<r.flatzinc_id, r.problem_type>>
    IN  Map(GroupKeys(bounded, Key), LAMBDA g :
            LET rows == Group(bounded, Key, g)
                lb == MinOf(UNION {rows[i].objective_lb : i \in 1..Len(rows)})
                ub == MaxOf(UNION {rows[i].objective_ub : i \in 1..Len(rows)})
            IN  [flatzinc_id |-> g[1], objective_lb |-> lb, objective_ub |-> ub,
                 objective_bb |-> BestBound(g[2], lb, ub),
                 objective_wb |-> WorstBound(g[2], lb, ub)])

\* The count taken over the solutions of a run only.
NumSolutions_OfSolutions(runs, events) ==
    LET counts == Map(GroupKeys(events, LAMBDA e : e.run_id), LAMBDA g :
                      [run_id |-> g,
                       num_solutions |->
                           MaxOf({events[i].num_solutions :
                                    i \in {j \in 1..Len(events) :
                                             /\ events[j].run_id = g
                                             /\ events[j].type = "new_solution"}})])
    IN  LeftJoin(runs, counts,
            LAMBDA l, r : KeyEq({l.id}, r.run_id),
            LAMBDA l, r : l @@ [num_solutions |-> r.num_solutions],
            LAMBDA l : l @@ [num_solutions |-> Null])

\* add_num_solutions.
NumSolutions(runs, events) ==
    LET counts == Map(GroupKeys(events, LAMBDA e : e.run_id), LAMBDA g :
                      [run_id |-> g,
                       num_solutions |->
                           MaxOf({events[i].num_solutions :
                                    i \in {j \in 1..Len(events) : events[j].run_id = g}})])
    IN  LeftJoin(runs, counts,
            LAMBDA l, r : KeyEq({l.id}, r.run_id),
            LAMBDA l, r : l @@ [num_solutions |-> r.num_solutions],
            LAMBDA l : l @@ [num_solutions |-> Null])

Abs(x) == IF x < 0 THEN -x ELSE x

\* The quotient a / b of two nullable integers as a float: null if either is
\* null, else the fraction of numerator num and denominator den (den = 0
\* is the float division by zero: nan for 0 / 0, infinite otherwise).
Div(a, b) == {[num |-> x, den |-> y] : x \in a, y \in b}

\* The objective score without the absolute value.
ObjectiveScore_NoAbs(bb, flatzinc_bb, flatzinc_ub, flatzinc_lb) ==
    Div({x - y : x \in bb, y \in flatzinc_bb},
        {x - y : x \in flatzinc_ub, y \in flatzinc_lb})

\* The objective score of add_objective_score.
ObjectiveScore(bb, flatzinc_bb, flatzinc_ub, flatzinc_lb) ==
    Div({Abs(x - y) : x \in bb, y \in flatzinc_bb},
        {x - y : x \in flatzinc_ub, y \in flatzinc_lb})

\* The score taken from the worst bound of the instance.
AddObjectiveScore_FromWorst(runs, flatzincs) ==
    InnerJoin(runs, flatzincs,
        LAMBDA l, r : l.flatzinc_id = r.id,
        LAMBDA l, r : l @@ [objective_score |->
                              ObjectiveScore(l.objective_bb, r.objective_wb,
                                             r.objective_ub, r.objective_lb)])

\* add_objective_score.
AddObjectiveScore(runs, flatzincs) ==
    InnerJoin(runs, flatzincs,
        LAMBDA l, r : l.flatzinc_id = r.id,
        LAMBDA l, r : l @@ [objective_score |->
                              ObjectiveScore(l.objective_bb, r.objective_bb,
                                             r.objective_ub, r.objective_lb)])

\* The names of the columns add_bounds adds for a column.
Fsol(col) == IF col = "time" THEN "time_fsol" ELSE "num_decisions_fsol"

Lsol(col) == IF col = "time" THEN "time_lsol" ELSE "num_decisions_lsol"

\* Only keep new solution events.
NewSolutions(events) == SelectSeq(events, LAMBDA e : e.type = "new_solution")

\* add_bounds: the run dataframe with the first and last solution of a run.
AddRunBounds(runs, events, col) ==
    LET sols == NewSolutions(events)
        df == Map(GroupKeys(sols, LAMBDA e : e.run_id), LAMBDA g :
                  LET vals == {sols[i][col] :
                                 i \in {j \in 1..Len(sols) : sols[j].run_id = g}}
                  IN  [run_id |-> g, fsol |-> MinOf(vals), lsol |-> MaxOf(vals)])
    IN  LeftJoin(runs, df,
            LAMBDA l, r : KeyEq({l.id}, r.run_id),
            LAMBDA l, r : l @@ (Fsol(col) :> r.fsol) @@ (Lsol(col) :> r.lsol),
            LAMBDA l : l @@ (Fsol(col) :> Null) @@ (Lsol(col) :> Null))

\* add_bounds taking the latest first solution and the earliest last
\* solution of the runs of an instance.
AddFlatzincBounds_Swapped(flatzincs, runs, col) ==
    LET df == Map(GroupKeys(runs, LAMBDA r : r.flatzinc_id), LAMBDA g :
                  LET rows == Group(runs, LAMBDA r : r.flatzinc_id, g)
                  IN  [flatzinc_id |-> g,
                       fsol |-> MaxOf(UNION {rows[i][Fsol(col)] : i \in 1..Len(rows)}),
                       lsol |-> MinOf(UNION {rows[i][Lsol(col)] : i \in 1..Len(rows)})])
    IN  LeftJoin(flatzincs, df,
            LAMBDA l, r : l.id = r.flatzinc_id,
            LAMBDA l, r : l @@ (Fsol(col) :> r.fsol) @@ (Lsol(col) :> r.lsol),
            LAMBDA l : l @@ (Fsol(col) :> Null) @@ (Lsol(col) :> Null))

\* add_bounds: the flatzinc dataframe with the first and last solution over
\* the runs of an instance.
AddFlatzincBounds(flatzincs, runs, col) ==
    LET df == Map(GroupKeys(runs, LAMBDA r : r.flatzinc_id), LAMBDA g :
                  LET rows == Group(runs, LAMBDA r : r.flatzinc_id, g)
                  IN  [flatzinc_id |-> g,
                       fsol |-> MinOf(UNION {rows[i][Fsol(col)] : i \in 1..Len(rows)}),
                       lsol |-> MaxOf(UNION {rows[i][Lsol(col)] : i \in 1..Len(rows)})])
    IN  LeftJoin(flatzincs, df,
            LAMBDA l, r : l.id = r.flatzinc_id,
            LAMBDA l, r : l @@ (Fsol(col) :> r.fsol) @@ (Lsol(col) :> r.lsol),
            LAMBDA l : l @@ (Fsol(col) :> Null) @@ (Lsol(col) :> Null))

\* (objective * (col - col.shift())).sum() over the new solutions of a run:
\* the first term is null and the sum skips it.
RECURSIVE AreaUnderCurve(_, _)
AreaUnderCurve(rows, col) ==
    IF Len(rows) < 2 THEN 0
    ELSE AreaUnderCurve(SubSeq(rows, 1, Len(rows) - 1), col)
         + rows[Len(rows)].objective * (rows[Len(rows)][col] - rows[Len(rows) - 1][col])

\* Arithmetic on nullable integers: null if an operand is null.
Sub(a, b) == {x - y : x \in a, y \in b}

Mul(a, b) == {x * y : x \in a, y \in b}

Add(a, b) == {x + y : x \in a, y \in b}

\* The comparison that is false on a null.
Ge_NullIsFalse(a, b) == a # Null /\ b # Null /\ \A x \in a, y \in b : x >= y

\* Series.ge(other).all() / Series.le(other).all() on one row: a comparison
\* with a null is null, and all() skips nulls.
Ge(a, b) == \A x \in a, y \in b : x >= y

Le(a, b) == \A x \in a, y \in b : x <= y

\* add_auc_score: the frame the six assertions and the score are computed
\* on, one row per run.
AucFrame(runs, flatzincs, events, col) ==
    LET sols == NewSolutions(events)
        areas == Map(GroupKeys(sols, LAMBDA e : e.run_id), LAMBDA g :
                     [run_id |-> g,
                      area_under_curve |->
                          {AreaUnderCurve(Group(sols, LAMBDA e : e.run_id, g), col)}])
        with_area == LeftJoin(runs, areas,
                         LAMBDA l, r : KeyEq({l.id}, r.run_id),
                         LAMBDA l, r : [id |-> l.id, flatzinc_id |-> l.flatzinc_id,
                                        objective_bb |-> l.objective_bb,
                                        objective_wb |-> l.objective_wb,
                                        fsol |-> l[Fsol(col)], lsol |-> l[Lsol(col)],
                                        area_under_curve |-> r.area_under_curve],
                         LAMBDA l : [id |-> l.id, flatzinc_id |-> l.flatzinc_id,
                                     objective_bb |-> l.objective_bb,
                                     objective_wb |-> l.objective_wb,
                                     fsol |-> l[Fsol(col)], lsol |-> l[Lsol(col)],
                                     area_under_curve |-> Null])
        Fzn(l, type, ub, lb, fsol, lsol) ==
            l @@ [problem_type |-> type, flatzinc_objective_ub |-> ub,
                  flatzinc_objective_lb |-> lb, flatzinc_fsol |-> fsol,
                  flatzinc_lsol |-> lsol,
                  flatzinc_rectangle_area |-> Mul(Sub(ub, lb), Sub(lsol, fsol))]
    IN  LeftJoin(with_area, flatzincs,
            LAMBDA l, r : l.flatzinc_id = r.id,
            LAMBDA l, r : Fzn(l, r.problem_type, r.objective_ub, r.objective_lb,
                              r[Fsol(col)], r[Lsol(col)]),
            LAMBDA l : Fzn(l, Null, Null, Null, Null, Null))

\* add_auc_score: the six assertions on the run bounds.
AucBoundsOk(df) ==
    \A i \in 1..Len(df) :
        /\ Ge(df[i].fsol, df[i].flatzinc_fsol)
        /\ Le(df[i].lsol, df[i].flatzinc_lsol)
        /\ Ge(df[i].objective_wb, df[i].flatzinc_objective_lb)
        /\ Ge(df[i].objective_bb, df[i].flatzinc_objective_lb)
        /\ Le(df[i].objective_wb, df[i].flatzinc_objective_ub)
        /\ Le(df[i].objective_bb, df[i].flatzinc_objective_ub)

\* The area without the part that lies under the instance's lower bound
\* taken off.
Area_FromZero(r) ==
    Add(Add(r.area_under_curve,
            Mul(Sub(r.fsol, r.flatzinc_fsol), r.objective_wb)),
        Mul(Sub(r.flatzinc_lsol, r.lsol), r.objective_bb))

\* add_auc_score: the area inside the flatzinc rectangle.
Area(r) ==
    Sub(Add(Add(r.area_under_curve,
                Mul(Sub(r.fsol, r.flatzinc_fsol), r.objective_wb)),
            Mul(Sub(r.flatzinc_lsol, r.lsol), r.objective_bb)),
        Mul(Sub(r.flatzinc_lsol, r.flatzinc_fsol), r.flatzinc_objective_lb))

\* The score with its two branches exchanged.
AucScore_Exchanged(r) ==
    LET area_ratio == Div(Area(r), r.flatzinc_rectangle_area)
    IN  IF r.problem_type # {"minimize"} THEN area_ratio
        ELSE {[num |-> q.den - q.num, den |-> q.den] : q \in area_ratio}

\* add_auc_score: the area ratio, or one minus it unless the problem is a
\* minimisation.
AucScore(r) ==
    LET area_ratio == Div(Area(r), r.flatzinc_rectangle_area)
    IN  IF r.problem_type = {"minimize"} THEN area_ratio
        ELSE {[num |-> q.den - q.num, den |-> q.den] : q \in area_ratio}

\* add_auc_score: the run dataframe with the score column.
AddAucScore(runs, df, name) ==
    LeftJoin(runs, df,
        LAMBDA l, r : l.id = r.id,
        LAMBDA l, r : l @@ (name :> AucScore(r)),
        LAMBDA l : l @@ (name :> Null))

----------------------------------------------------------------------------
(* The state machine: Database.read on a results directory, one step per   *)
(* builder and per pass of improve.  pc is the next step, error the        *)
(* message of the assertion that failed, and built records the five        *)
(* dataframes at the end of each construction (the Database as returned    *)
(* before improve).                                                        *)

Empty == <<>>

Tables ==
    [problem_df |-> problem_df, flatzinc_df |-> flatzinc_df,
     configuration_df |-> configuration_df, run_df |-> run_df,
     event_df |-> event_df]

Init ==
    /\ results_dir \in ResultsDirs
    /\ pc = "read_raw_df"
    /\ error = "none"
    /\ stderr = <<>>
    /\ raw_df = Empty
    /\ problem_df = Empty
    /\ flatzinc_df = Empty
    /\ configuration_df = Empty
    /\ run_df = Empty
    /\ event_df = Empty
    /\ built = <<>>
    /\ args = Null
    /\ num_improve = 0
    /\ caller = "none"

\* The row orders a join may give to its result: DataFrame.join is called
\* without maintain_order everywhere, which leaves the order unspecified.
\* Where a sort on a total key follows, the order of the join is lost and
\* the builders above take the one of the left frame.
JoinOrders(df) == Sort(df, LAMBDA a, b : FALSE)

\* An assertion fails after a line was printed on the standard error for
\* each row of df: the call is aborted and nothing is assigned.
FailPrinting(df, line, msg) ==
    /\ pc' = "failed"
    /\ error' = msg
    /\ stderr' = stderr \o [i \in 1..Len(df) |-> line]
    /\ UNCHANGED <<results_dir, cli, raw_df, problem_df, flatzinc_df,
                   configuration_df, run_df, event_df, built>>

\* An assertion fails: the call is aborted and nothing is assigned.
Fail(msg) == FailPrinting(<<>>, "", msg)

read_raw_df ==
    /\ pc = "read_raw_df"
    /\ \E order \in IterDir(results_dir) : raw_df' = ReadRawDf(results_dir, order)
    /\ pc' = "make_problem_df"
    /\ problem_df' = Empty
    /\ flatzinc_df' = Empty
    /\ configuration_df' = Empty
    /\ run_df' = Empty
    /\ event_df' = Empty
    /\ UNCHANGED <<results_dir, cli, stderr, error, built>>

make_problem_df ==
    /\ pc = "make_problem_df"
    /\ \E df \in MakeProblemDf(raw_df) :
          IF IsUnique(Map(df, LAMBDA r : r.name))
          THEN /\ problem_df' = df
               /\ pc' = "make_flatzinc_df"
               /\ UNCHANGED <<results_dir, cli, stderr, error, raw_df, flatzinc_df,
                              configuration_df, run_df, event_df, built>>
          ELSE Fail("problem name must be unique")

make_flatzinc_df ==
    /\ pc = "make_flatzinc_df"
    /\ \E df \in FlatzincRows(raw_df, problem_df) :
          IF IsUnique(df)
          THEN /\ flatzinc_df' = WithRowIndex(df)
               /\ pc' = "make_configuration_df"
               /\ UNCHANGED <<results_dir, cli, stderr, error, raw_df, problem_df,
                              configuration_df, run_df, event_df, built>>
          ELSE Fail("the pair (name, problem.id) must be unique")

make_configuration_df ==
    /\ pc = "make_configuration_df"
    /\ LET df == ConfigurationFields(raw_df)
           df_nulls == SelectSeq(df, LAMBDA r : r.restart = Null)
       IN  IF df_nulls = <<>>
           THEN /\ \E sorted \in Sort(df, LAMBDA a, b : NameLess(a.name, b.name)) :
                      configuration_df' = WithRowIndex(sorted)
                /\ pc' = "make_run_df"
                /\ UNCHANGED <<results_dir, cli, stderr, error, raw_df, problem_df,
                               flatzinc_df, run_df, event_df, built>>
           ELSE FailPrinting(df_nulls,
                    "configuration is not of the form varorder_valueorder_restart",
                    "a configuration is not of the form varorder_valueorder_restart")

make_run_df ==
    /\ pc = "make_run_df"
    /\ LET df == RunPairs(raw_df, problem_df, flatzinc_df, configuration_df)
       IN  IF IsUnique(df)
           THEN /\ \E sorted \in Sort(df, RunLess) : run_df' = WithRowIndex(sorted)
                /\ pc' = "make_event_df"
                /\ UNCHANGED <<results_dir, cli, stderr, error, raw_df, problem_df,
                               flatzinc_df, configuration_df, event_df, built>>
           ELSE Fail("pair (flatzinc.id, configuration.id) should be unique")

make_event_df ==
    /\ pc = "make_event_df"
    /\ \E sorted \in Sort(EventRows(raw_df, problem_df, flatzinc_df,
                                    configuration_df, run_df), EventLess) :
          /\ event_df' = WithRowIndex(sorted)
          /\ built' = Append(built, [Tables EXCEPT !.event_df = WithRowIndex(sorted)])
    /\ pc' = "read"
    /\ UNCHANGED <<results_dir, cli, stderr, error, raw_df, problem_df, flatzinc_df,
                   configuration_df, run_df>>

\* The commands of the command line and the callback of each.
Commands == {"dev_cmd", "describe_cmd", "print_cmd", "heatmap_cmd",
             "flatzinc_cmd", "subplots_cmd", "box_cmd"}

\* The commands that have the --basic option.
WithBasic == {"describe_cmd", "print_cmd"}

\* The improve_db default of a command: True on the parser, False on the
\* parsers of describe and print.
ImproveDb_ParserDefault(cmd) == TRUE

ImproveDb(cmd) == cmd \notin {"describe_cmd", "print_cmd"}

\* The command lines: any command, with or without --basic where the
\* command has the option.
CommandLines ==
    {a \in [cmd_callback : Commands, basic : BOOLEAN] :
        a.basic => a.cmd_callback \in WithBasic}

\* A call of improve by the given caller begins.
CallImprove(from) ==
    /\ pc' = "add_problem_type"
    /\ num_improve' = num_improve + 1
    /\ caller' = from

\* improve returns to its caller.
ReturnFromImprove == IF caller = "read" THEN "done" ELSE "exit"

\* The values of the improve argument of a direct call of Database.read:
\* either value on the first read of the directory, False when it is read
\* again.
ImproveArgs == IF Len(built) = 1 THEN BOOLEAN ELSE {FALSE}

\* Database.read, lines 62 to 72: the Database is made and improved if asked.
Read(improve) ==
    /\ pc = "read"
    /\ IF improve
       THEN CallImprove("read")
       ELSE pc' = "done" /\ UNCHANGED <<num_improve, caller>>
    /\ UNCHANGED <<results_dir, error, stderr, raw_df, problem_df, flatzinc_df,
                   configuration_df, run_df, event_df, built, args>>

\* Database.read called directly.
read ==
    /\ args = Null
    /\ \E improve \in ImproveArgs : Read(improve)

\* main, line 1273: Database.read(args.results_dir, args.improve_db).
main ==
    /\ args # Null
    /\ Read(ImproveDb(The(args).cmd_callback))

\* print_cmd and describe_cmd, up to get_dataframes: improve unless --basic.
ImproveUnlessBasic(cmd) ==
    /\ pc = "done"
    /\ The(args).cmd_callback = cmd
    /\ IF ~The(args).basic
       THEN CallImprove(cmd)
       ELSE pc' = "exit" /\ UNCHANGED <<num_improve, caller>>
    /\ UNCHANGED <<results_dir, error, stderr, raw_df, problem_df, flatzinc_df,
                   configuration_df, run_df, event_df, built, args>>

print_cmd == ImproveUnlessBasic("print_cmd")

describe_cmd == ImproveUnlessBasic("describe_cmd")

\* A command that reads the tables of the Database as main made it.
ReadTables(cmd) ==
    /\ pc = "done"
    /\ The(args).cmd_callback = cmd
    /\ pc' = "exit"
    /\ UNCHANGED <<results_dir, cli, stderr, error, raw_df, problem_df, flatzinc_df,
                   configuration_df, run_df, event_df, built>>

dev_cmd == ReadTables("dev_cmd")

heatmap_cmd == ReadTables("heatmap_cmd")

flatzinc_cmd == ReadTables("flatzinc_cmd")

subplots_cmd == ReadTables("subplots_cmd")

box_cmd == ReadTables("box_cmd")

add_problem_type ==
    /\ pc = "add_problem_type"
    /\ LET trends == RunTrends(event_df)
           df_not_monotonic == NotMonotonic(trends, run_df, configuration_df,
                                            flatzinc_df, problem_df)
           df == ProblemTrends(TrendsOfProblems(trends, run_df, flatzinc_df, problem_df))
           df_both == ProblemsWithBoth(df)
           typed == Map(df, LAMBDA t : [id |-> t.id, name |-> t.name,
                                        type |-> {ProblemType(t)}])
       IN  IF df_not_monotonic # <<>>
           THEN FailPrinting(df_not_monotonic, "objective value is not monotonic",
                    "there is a run with non-monotonic objective")
           ELSE IF df_both # <<>>
           THEN FailPrinting(df_both, "problem has decreasing runs and increasing",
                    "there is a problem with both increasing and decreasing flatzinc")
           ELSE \E sorted \in Sort(typed, LAMBDA a, b : a.id < b.id) :
                   IF NamesSorted(sorted)
                   THEN /\ problem_df' = sorted
                        /\ pc' = "propagate_type_to_flatzinc"
                        /\ UNCHANGED <<results_dir, cli, stderr, error, raw_df, flatzinc_df,
                                       configuration_df, run_df, event_df, built>>
                   ELSE Fail("problem names are not sorted")

propagate_type_to_flatzinc ==
    /\ pc = "propagate_type_to_flatzinc"
    /\ flatzinc_df' \in JoinOrders(PropagateType(flatzinc_df, problem_df))
    /\ pc' = "add_objective_bounds"
    /\ UNCHANGED <<results_dir, cli, stderr, error, raw_df, problem_df, configuration_df,
                   run_df, event_df, built>>

add_objective_bounds ==
    /\ pc = "add_objective_bounds"
    /\ \E df \in JoinOrders(RunBounds(run_df, event_df, flatzinc_df)) :
       LET runs == Map(df, LAMBDA r : Drop(r, {"problem_type"}))
           bounds == FlatzincBounds(df)
       IN  /\ run_df' = runs
           /\ IF IdsSorted(runs)
              THEN /\ flatzinc_df' \in JoinOrders(
                        LeftJoin(flatzinc_df, bounds,
                            LAMBDA l, r : l.id = r.flatzinc_id,
                            LAMBDA l, r : l @@ Drop(r, {"flatzinc_id"}),
                            LAMBDA l : l @@ [objective_lb |-> Null, objective_ub |-> Null,
                                             objective_bb |-> Null, objective_wb |-> Null]))
                   /\ pc' = "add_num_solutions"
                   /\ error' = error
              ELSE /\ flatzinc_df' = flatzinc_df
                   /\ pc' = "failed"
                   /\ error' = "run ids are not sorted"
    /\ UNCHANGED <<results_dir, cli, stderr, raw_df, problem_df, configuration_df,
                   event_df, built>>

\* add_num_solutions followed by add_bounds("time"), without the objective
\* score.
add_num_solutions_ThenBounds ==
    /\ pc = "add_num_solutions"
    /\ run_df' \in JoinOrders(NumSolutions(run_df, event_df))
    /\ pc' = "add_bounds_time"
    /\ UNCHANGED <<results_dir, cli, stderr, error, raw_df, problem_df, flatzinc_df,
                   configuration_df, event_df, built>>

add_num_solutions ==
    /\ pc = "add_num_solutions"
    /\ run_df' \in JoinOrders(NumSolutions(run_df, event_df))
    /\ pc' = "add_objective_score"
    /\ UNCHANGED <<results_dir, cli, stderr, error, raw_df, problem_df, flatzinc_df,
                   configuration_df, event_df, built>>

add_objective_score ==
    /\ pc = "add_objective_score"
    /\ run_df' \in JoinOrders(AddObjectiveScore(run_df, flatzinc_df))
    /\ pc' = "add_bounds_time"
    /\ UNCHANGED <<results_dir, cli, stderr, error, raw_df, problem_df, flatzinc_df,
                   configuration_df, event_df, built>>

\* add_bounds keeping only the new solutions in the event dataframe of the
\* Database.
add_bounds_FilteringEvents(col, next) ==
    /\ \E runs \in JoinOrders(AddRunBounds(run_df, event_df, col)) :
          /\ run_df' = runs
          /\ flatzinc_df' \in JoinOrders(AddFlatzincBounds(flatzinc_df, runs, col))
    /\ event_df' = NewSolutions(event_df)
    /\ pc' = next
    /\ UNCHANGED <<results_dir, cli, stderr, error, raw_df, problem_df, configuration_df,
                   built>>

\* add_bounds(col), then the step that follows it in improve.
add_bounds(col, next) ==
    /\ \E runs \in JoinOrders(AddRunBounds(run_df, event_df, col)) :
          /\ run_df' = runs
          /\ flatzinc_df' \in JoinOrders(AddFlatzincBounds(flatzinc_df, runs, col))
    /\ pc' = next
    /\ UNCHANGED <<results_dir, cli, stderr, error, raw_df, problem_df, configuration_df,
                   event_df, built>>

add_bounds_time ==
    /\ pc = "add_bounds_time"
    /\ add_bounds("time", "add_bounds_num_decisions")

add_bounds_num_decisions ==
    /\ pc = "add_bounds_num_decisions"
    /\ add_bounds("num_decisions", "add_auc_score_time")

\* add_auc_score(col, name), then the step that follows it in improve.
add_auc_score(col, name, next) ==
    LET df == AucFrame(run_df, flatzinc_df, event_df, col)
    IN  IF AucBoundsOk(df)
        THEN /\ run_df' \in JoinOrders(AddAucScore(run_df, df, name))
             /\ pc' = next
             /\ UNCHANGED <<results_dir, cli, stderr, error, raw_df, problem_df, flatzinc_df,
                            configuration_df, event_df, built>>
        ELSE Fail("run bounds are outside of the flatzinc bounds")

add_auc_score_time ==
    /\ pc = "add_auc_score_time"
    /\ add_auc_score("time", "autc_score", "add_auc_score_num_decisions")

add_auc_score_num_decisions ==
    /\ pc = "add_auc_score_num_decisions"
    /\ add_auc_score("num_decisions", "audc_score", ReturnFromImprove)

\* The same results directory is read once more, into a new Database.
read_again ==
    /\ pc = "done"
    /\ args = Null
    /\ Len(built) < MaxReads
    /\ pc' = "read_raw_df"
    /\ num_improve' = 0
    /\ caller' = "none"
    /\ UNCHANGED <<results_dir, args, error, stderr, raw_df, problem_df, flatzinc_df,
                   configuration_df, run_df, event_df, built>>

Next ==
    \/ read_raw_df
    \/ make_problem_df
    \/ make_flatzinc_df
    \/ make_configuration_df
    \/ make_run_df
    \/ make_event_df
    \/ read
    \/ add_problem_type
    \/ propagate_type_to_flatzinc
    \/ add_objective_bounds
    \/ add_num_solutions
    \/ add_objective_score
    \/ add_bounds_time
    \/ add_bounds_num_decisions
    \/ add_auc_score_time
    \/ add_auc_score_num_decisions
    \/ read_again

Spec == Init /\ [][Next]_vars

\* One run of the program: main on a command line and a results directory.
MainResultsDirs ==
    {TwoConfigurations} \cup DirsOver(GoodNames, ObjCells({P}, 1..2), MaxRows)

MainInit ==
    /\ results_dir \in MainResultsDirs
    /\ args \in {{a} : a \in CommandLines}
    /\ pc = "read_raw_df"
    /\ error = "none"
    /\ stderr = <<>>
    /\ raw_df = Empty
    /\ problem_df = Empty
    /\ flatzinc_df = Empty
    /\ configuration_df = Empty
    /\ run_df = Empty
    /\ event_df = Empty
    /\ built = <<>>
    /\ num_improve = 0
    /\ caller = "none"

MainNext ==
    \/ read_raw_df
    \/ make_problem_df
    \/ make_flatzinc_df
    \/ make_configuration_df
    \/ make_run_df
    \/ make_event_df
    \/ main
    \/ add_problem_type
    \/ propagate_type_to_flatzinc
    \/ add_objective_bounds
    \/ add_num_solutions
    \/ add_objective_score
    \/ add_bounds_time
    \/ add_bounds_num_decisions
    \/ add_auc_score_time
    \/ add_auc_score_num_decisions
    \/ dev_cmd
    \/ describe_cmd
    \/ print_cmd
    \/ heatmap_cmd
    \/ flatzinc_cmd
    \/ subplots_cmd
    \/ box_cmd

MainSpec == MainInit /\ [][MainNext]_vars

TypeOK == pc \in {"read_raw_df", "make_problem_df", "make_flatzinc_df",
                  "make_configuration_df", "make_run_df", "make_event_df",
                  "read", "add_problem_type", "propagate_type_to_flatzinc",
                  "add_objective_bounds", "add_num_solutions",
                  "add_objective_score", "add_bounds_time",
                  "add_bounds_num_decisions", "add_auc_score_time",
                  "add_auc_score_num_decisions", "done", "exit", "failed"}
          /\ stderr \in Seq({"configuration is not of the form varorder_valueorder_restart",
                              "objective value is not monotonic",
                              "problem has decreasing runs and increasing"})

----------------------------------------------------------------------------
(* Properties.  The orders and lookups below are stated on their own, not  *)
(* through the operators of the builders.                                  *)

\* A frame of the Database as its builder made it: improve has not yet
\* added the column col to it.
AsBuilt(df, col) == df # <<>> /\ col \notin DOMAIN df[1]

\* The ids of a frame are 0..n-1 in row order.
DenseIds(df) == \A i \in 1..Len(df) : df[i].id = i - 1

\* A nullable string comes strictly before another: null before any string,
\* strings in lexical order.
NameBefore(x, y) ==
    \/ x = Null /\ y # Null
    \/ x # Null /\ y # Null /\ StrLess(The(x), The(y))

\* A nullable integer comes strictly before another, null first.
IntBefore(x, y) ==
    \/ x = Null /\ y # Null
    \/ x # Null /\ y # Null /\ The(x) < The(y)

InstanceBefore(a, b) ==
    \/ IntBefore(a.problem_id, b.problem_id)
    \/ a.problem_id = b.problem_id /\ NameBefore(a.name, b.name)

\* C1: each dimension table built by make_problem_df, make_flatzinc_df and
\* make_configuration_df has the ids 0..n-1 without gap or repeat, assigned
\* in strictly ascending order of its sort key (problem: name; instance:
\* (problem.id, name); configuration: name), and its natural key (name, or
\* (name, problem.id) for instances) is unique.
C1_DimensionIds ==
    /\ AsBuilt(problem_df, "type") =>
          /\ DenseIds(problem_df)
          /\ \A i, j \in 1..Len(problem_df) :
                /\ i < j => NameBefore(problem_df[i].name, problem_df[j].name)
                /\ problem_df[i].name = problem_df[j].name => i = j
    /\ AsBuilt(flatzinc_df, "problem_type") =>
          /\ DenseIds(flatzinc_df)
          /\ \A i, j \in 1..Len(flatzinc_df) :
                /\ i < j => InstanceBefore(flatzinc_df[i], flatzinc_df[j])
                /\ (/\ flatzinc_df[i].name = flatzinc_df[j].name
                    /\ flatzinc_df[i].problem_id = flatzinc_df[j].problem_id) => i = j
    /\ configuration_df # <<>> =>
          /\ DenseIds(configuration_df)
          /\ \A i, j \in 1..Len(configuration_df) :
                /\ i < j => NameBefore(configuration_df[i].name, configuration_df[j].name)
                /\ configuration_df[i].name = configuration_df[j].name => i = j

\* C1 witness: the three dimension tables are built from a raw table that
\* lists problem Q before problem P and configuration c_d_l before a_b_n,
\* and has two instances.
C1_Witness ==
    /\ pc = "make_run_df"
    /\ raw_df[1].problem = {Q}
    /\ raw_df[1].configuration = {Cfg_c_d_l}
    /\ Len(problem_df) = 2
    /\ Len(flatzinc_df) = 2
    /\ Len(configuration_df) = 2

\* The instance row f is the instance of the raw row r: same instance name
\* (or both missing) under the same problem name (or both missing).
InstanceOf(f, r) ==
    /\ f.name = r.flatzinc
    /\ IF f.problem_id = Null THEN r.problem = Null
       ELSE \E i \in 1..Len(problem_df) :
               problem_df[i].id = The(f.problem_id) /\ problem_df[i].name = r.problem

\* The run row u is a run of the (instance, configuration) of the raw row r.
RunOf(u, r) ==
    /\ \E i \in 1..Len(flatzinc_df) :
          flatzinc_df[i].id = u.flatzinc_id /\ InstanceOf(flatzinc_df[i], r)
    /\ \E i \in 1..Len(configuration_df) :
          /\ configuration_df[i].id = u.configuration_id
          /\ configuration_df[i].name = r.configuration

\* The run table is in place: make_run_df has returned it.
RunsBuilt == pc \in {"make_event_df", "read"}

\* Run ids are 0..n-1 in strictly ascending (flatzinc.id, configuration.id)
\* order, so no pair occurs twice.
RunIdsAscending ==
    /\ DenseIds(run_df)
    /\ \A i, j \in 1..Len(run_df) :
          i < j => \/ run_df[i].flatzinc_id < run_df[j].flatzinc_id
                   \/ /\ run_df[i].flatzinc_id = run_df[j].flatzinc_id
                      /\ run_df[i].configuration_id < run_df[j].configuration_id

\* C2: the run table built by make_run_df has at most one row per
\* (flatzinc.id, configuration.id) pair, exactly one row for each (instance,
\* configuration) combination that occurs in the raw table, and run ids
\* 0..n-1 in ascending (flatzinc.id, configuration.id) order.
C2_RunPerCombination ==
    RunsBuilt =>
        /\ RunIdsAscending
        /\ \A k \in 1..Len(raw_df) :
              Cardinality({i \in 1..Len(run_df) : RunOf(run_df[i], raw_df[k])}) = 1

\* C3: in the event table built by make_event_df the ids are 0..n-1 in
\* ascending (run.id, time) order over the whole table, so of two events of
\* one run the one with the smaller id has the smaller or equal time.
C3_EventOrder ==
    event_df # <<>> =>
        /\ DenseIds(event_df)
        /\ \A i, j \in 1..Len(event_df) :
              i < j =>
                 /\ ~IntBefore(event_df[j].run_id, event_df[i].run_id)
                 /\ event_df[i].run_id = event_df[j].run_id =>
                       event_df[i].time <= event_df[j].time

\* C3 witness: the event table is built from a raw table that lists a later
\* event of a run before an earlier one.
C3_Witness ==
    /\ pc = "read"
    /\ \E i, j \in 1..Len(raw_df) :
          /\ i < j
          /\ raw_df[i].time > raw_df[j].time
          /\ raw_df[i].problem = raw_df[j].problem
          /\ raw_df[i].flatzinc = raw_df[j].flatzinc
          /\ raw_df[i].configuration = raw_df[j].configuration
          /\ raw_df[i].problem # Null
          /\ raw_df[i].flatzinc # Null

\* C4: in every Database that Database.read returns, every foreign key
\* resolves to exactly one parent row: each instance's problem.id is the id
\* of a problem row, each run's flatzinc.id and configuration.id are ids of
\* an instance row and of a configuration row, and each event's run.id is
\* the non-null id of a run row.
C4_ForeignKeysResolve ==
    pc = "done" =>
        /\ \A i \in 1..Len(flatzinc_df) :
              Cardinality({k \in 1..Len(problem_df) :
                             {problem_df[k].id} = flatzinc_df[i].problem_id}) = 1
        /\ \A i \in 1..Len(run_df) :
              /\ Cardinality({k \in 1..Len(flatzinc_df) :
                                flatzinc_df[k].id = run_df[i].flatzinc_id}) = 1
              /\ Cardinality({k \in 1..Len(configuration_df) :
                                configuration_df[k].id = run_df[i].configuration_id}) = 1
        /\ \A i \in 1..Len(event_df) :
              Cardinality({k \in 1..Len(run_df) :
                             {run_df[k].id} = event_df[i].run_id}) = 1

\* C5: building the problem, instance, configuration, run and event tables
\* twice from the same results yields identical tables (same ids, same row
\* order), also when two events of one run carry the same time and whatever
\* the order in which the directories were concatenated.
C5_BuildTwiceIdentical ==
    Len(built) = 2 => built[1] = built[2]

\* The objectives of the events of the run of the given id, in the order of
\* the event table (ascending time).
Objectives(id) ==
    LET es == SelectSeq(event_df, LAMBDA e : e.run_id = {id})
    IN  [i \in 1..Len(es) |-> es[i].objective]

\* Some consecutive delta of the sequence is positive / negative.
Increases(seq) == \E i \in 1..(Len(seq) - 1) : seq[i + 1] > seq[i]

Decreases(seq) == \E i \in 1..(Len(seq) - 1) : seq[i + 1] < seq[i]

\* The problem.id of the instance of a run (null if the instance has none).
ProblemIdOfRun(u) ==
    UNION {flatzinc_df[i].problem_id :
             i \in {k \in 1..Len(flatzinc_df) : flatzinc_df[k].id = u.flatzinc_id}}

\* The runs of the problem of the given id.
RunsOfProblem(id) == {i \in 1..Len(run_df) : ProblemIdOfRun(run_df[i]) = {id}}

\* The type of the problem of the given (nullable) id, null if the problem
\* table has no typed row of that id.
TypeOfProblem(pid) ==
    UNION {problem_df[k].type :
             k \in {i \in 1..Len(problem_df) :
                      /\ {problem_df[i].id} = pid
                      /\ "type" \in DOMAIN problem_df[i]}}

\* improve is past add_problem_type.
PastProblemType ==
    pc \in {"propagate_type_to_flatzinc", "add_objective_bounds",
            "add_num_solutions", "add_objective_score", "add_bounds_time",
            "add_bounds_num_decisions", "add_auc_score_time",
            "add_auc_score_num_decisions"}

\* A run increases and decreases.
SomeRunHasBoth ==
    \E i \in 1..Len(run_df) :
        Increases(Objectives(run_df[i].id)) /\ Decreases(Objectives(run_df[i].id))

\* No row of the problem table has a type.
NoProblemTyped == \A k \in 1..Len(problem_df) : "type" \notin DOMAIN problem_df[k]

\* C6: add_problem_type classifies each run by the consecutive objective
\* deltas of its events in time order and, when no run and no problem has
\* both directions, types each problem maximize if one of its runs
\* increases and minimize otherwise; it fails with the monotonicity error
\* only if a run has both.  Objectives 1,2,2,3 give maximize, 3,2,2,1 give
\* minimize, and with a run of objectives 1,2,1 the call fails with the
\* monotonicity error and no problem is ever typed.
C6_ProblemType ==
    /\ \A k \in 1..Len(problem_df) :
          "type" \in DOMAIN problem_df[k] =>
              problem_df[k].type =
                 {IF \E i \in RunsOfProblem(problem_df[k].id) :
                        Increases(Objectives(run_df[i].id))
                  THEN "maximize" ELSE "minimize"}
    /\ PastProblemType =>
          /\ ~SomeRunHasBoth
          /\ \A i \in 1..Len(run_df) :
                /\ TypeOfProblem(ProblemIdOfRun(run_df[i])) # Null
                /\ Objectives(run_df[i].id) = <<1, 2, 2, 3>> =>
                      TypeOfProblem(ProblemIdOfRun(run_df[i])) = {"maximize"}
                /\ Objectives(run_df[i].id) = <<3, 2, 2, 1>> =>
                      TypeOfProblem(ProblemIdOfRun(run_df[i])) = {"minimize"}
    /\ (\E i \in 1..Len(run_df) : Objectives(run_df[i].id) = <<1, 2, 1>>) =>
          /\ NoProblemTyped
          /\ ~PastProblemType
          /\ pc = "failed" => error = "there is a run with non-monotonic objective"
    /\ error = "there is a run with non-monotonic objective" => SomeRunHasBoth

\* C6 witness: a run of objectives 1,2,2,3 has been classified and its
\* problem typed maximize.
C6_Witness ==
    /\ pc = "propagate_type_to_flatzinc"
    /\ \E i \in 1..Len(run_df) :
          /\ Objectives(run_df[i].id) = <<1, 2, 2, 3>>
          /\ TypeOfProblem(ProblemIdOfRun(run_df[i])) = {"maximize"}

\* A problem has a run that only increases and a run that only decreases.
ContradictoryProblem ==
    \E i, j \in 1..Len(run_df) :
        /\ ProblemIdOfRun(run_df[i]) # Null
        /\ ProblemIdOfRun(run_df[i]) = ProblemIdOfRun(run_df[j])
        /\ Increases(Objectives(run_df[i].id))
        /\ ~Decreases(Objectives(run_df[i].id))
        /\ Decreases(Objectives(run_df[j].id))
        /\ ~Increases(Objectives(run_df[j].id))

\* C7: if a problem has a run that only increases and a run that only
\* decreases, add_problem_type fails and no problem receives a type;
\* improve never gets past add_problem_type with such a problem.
C7_ContradictoryProblemFails ==
    /\ ContradictoryProblem => NoProblemTyped /\ ~PastProblemType
    /\ error = "there is a problem with both increasing and decreasing flatzinc" =>
          /\ pc = "failed"
          /\ ContradictoryProblem
          /\ NoProblemTyped

\* C7 witness: add_problem_type has failed on a problem with an increasing
\* and a decreasing run.
C7_Witness ==
    /\ pc = "failed"
    /\ error = "there is a problem with both increasing and decreasing flatzinc"
    /\ ContradictoryProblem

\* The number of underscore-delimited parts of a string.
NumParts(s) == Cardinality({i \in 1..Len(s) : s[i] = Underscore}) + 1

\* C8: make_configuration_df fails for every raw table with a configuration
\* name that does not split on '_' into exactly 3 parts (fewer, or more);
\* when it succeeds, var_order, value_order and restart are exactly the
\* three underscore-delimited parts of the name.
C8_ConfigurationNames ==
    /\ (\E k \in 1..Len(raw_df) : NumParts(The(raw_df[k].configuration)) # 3) =>
          /\ configuration_df = <<>>
          /\ pc \in {"make_problem_df", "make_flatzinc_df", "make_configuration_df"}
             \/ /\ pc = "failed"
                /\ error = "a configuration is not of the form varorder_valueorder_restart"
    /\ \A i \in 1..Len(configuration_df) :
          LET c == configuration_df[i]
          IN  /\ c.var_order # Null /\ c.value_order # Null /\ c.restart # Null
              /\ \A f \in {c.var_order, c.value_order, c.restart} :
                    \A k \in 1..Len(The(f)) : The(f)[k] # Underscore
              /\ The(c.name) = The(c.var_order) \o <<Underscore>> \o The(c.value_order)
                                \o <<Underscore>> \o The(c.restart)

\* The non-null objectives of the events of the run of the given id.
ObjectivesOfRun(id) ==
    {event_df[k].objective : k \in {i \in 1..Len(event_df) : event_df[i].run_id = {id}}}

\* C9: after add_objective_bounds every run has objective_lb = min and
\* objective_ub = max of the objective over its events, objective_bb =
\* objective_lb and objective_wb = objective_ub when its problem is minimize
\* (swapped when maximize); every instance has objective_lb = min of its
\* runs' objective_lb, objective_ub = max of its runs' objective_ub, and
\* bb/wb derived from them by the same rule.
C9_ObjectiveBounds ==
    /\ \A i \in 1..Len(run_df) :
          LET u == run_df[i]
              type == TypeOfProblem(ProblemIdOfRun(u))
          IN  "objective_lb" \in DOMAIN u =>
                 /\ u.objective_lb = MinOf(ObjectivesOfRun(u.id))
                 /\ u.objective_ub = MaxOf(ObjectivesOfRun(u.id))
                 /\ u.objective_lb # Null
                 /\ type \in {{"minimize"}, {"maximize"}}
                 /\ type = {"minimize"} =>
                       u.objective_bb = u.objective_lb /\ u.objective_wb = u.objective_ub
                 /\ type = {"maximize"} =>
                       u.objective_bb = u.objective_ub /\ u.objective_wb = u.objective_lb
    /\ \A i \in 1..Len(flatzinc_df) :
          LET f == flatzinc_df[i]
              runs == {run_df[k] : k \in {j \in 1..Len(run_df) :
                                            run_df[j].flatzinc_id = f.id}}
              type == TypeOfProblem(f.problem_id)
          IN  "objective_lb" \in DOMAIN f =>
                 /\ f.objective_lb = MinOf(UNION {u.objective_lb : u \in runs})
                 /\ f.objective_ub = MaxOf(UNION {u.objective_ub : u \in runs})
                 /\ type = {"minimize"} =>
                       f.objective_bb = f.objective_lb /\ f.objective_wb = f.objective_ub
                 /\ type = {"maximize"} =>
                       f.objective_bb = f.objective_ub /\ f.objective_wb = f.objective_lb
                 /\ runs = {} => f.objective_bb = Null /\ f.objective_wb = Null

\* C9 witness: add_objective_bounds has run on an instance of a maximize
\* problem with two runs of different bounds.
C9_Witness ==
    /\ pc = "add_num_solutions"
    /\ \E i, j \in 1..Len(run_df) :
          /\ run_df[i].flatzinc_id = run_df[j].flatzinc_id
          /\ run_df[i].objective_lb # run_df[j].objective_lb
          /\ run_df[i].objective_ub # run_df[j].objective_ub
          /\ run_df[i].objective_lb # run_df[i].objective_ub
          /\ TypeOfProblem(ProblemIdOfRun(run_df[i])) = {"maximize"}

\* The instance row of a run.
InstanceOfRun(u) ==
    flatzinc_df[CHOOSE k \in 1..Len(flatzinc_df) : flatzinc_df[k].id = u.flatzinc_id]

\* A float cell holds exactly the integer n.
IsNumber(x, n) == x # Null /\ The(x).den # 0 /\ The(x).num = n * The(x).den

\* C10: for every run of an instance whose objective_ub is strictly greater
\* than its objective_lb, the objective_score is 0 if the run's
\* objective_bb equals the instance's objective_bb, and 1 if it equals the
\* instance's objective_wb.
C10_ObjectiveScoreBoundary ==
    \A i \in 1..Len(run_df) :
        LET u == run_df[i]
            f == InstanceOfRun(u)
        IN  (/\ "objective_score" \in DOMAIN u
             /\ f.objective_lb # Null
             /\ f.objective_ub # Null
             /\ The(f.objective_ub) > The(f.objective_lb)) =>
                /\ u.objective_bb = f.objective_bb => IsNumber(u.objective_score, 0)
                /\ u.objective_bb = f.objective_wb => IsNumber(u.objective_score, 1)

\* C10 witness: add_objective_score has scored, on an instance of nonzero
\* range, a run at the instance's best bound and a run at its worst bound.
C10_Witness ==
    /\ pc = "add_bounds_time"
    /\ \E i, j \in 1..Len(run_df) :
          LET f == InstanceOfRun(run_df[i])
          IN  /\ run_df[j].flatzinc_id = run_df[i].flatzinc_id
              /\ The(f.objective_ub) > The(f.objective_lb)
              /\ run_df[i].objective_bb = f.objective_bb
              /\ run_df[j].objective_bb = f.objective_wb
              /\ IsNumber(run_df[i].objective_score, 0)
              /\ IsNumber(run_df[j].objective_score, 1)

\* A float cell holds exactly the fraction n / d.
IsFraction(x, n, d) == x # Null /\ The(x).den # 0 /\ The(x).num * d = n * The(x).den

\* The Database has been through all of improve.
Enriched ==
    /\ pc = "done"
    /\ run_df # <<>>
    /\ "audc_score" \in DOMAIN run_df[1]

\* C11: on the results of TwoConfigurations, Database.read with improve
\* completes without error and yields 1 problem of type minimize, 1
\* instance, 2 configurations, 2 runs, 5 events sorted by (run, time),
\* instance objective_lb = 5 and objective_ub = 10, and objective_score 0
\* for the a_b_none run and 0.6 for the c_d_luby run.
C11_TwoConfigurations ==
    results_dir = TwoConfigurations =>
        /\ error = "none"
        /\ Enriched =>
              /\ Len(problem_df) = 1
              /\ problem_df[1].type = {"minimize"}
              /\ Len(flatzinc_df) = 1
              /\ Len(configuration_df) = 2
              /\ Len(run_df) = 2
              /\ Len(event_df) = 5
              /\ [i \in 1..5 |-> <<event_df[i].run_id, event_df[i].time>>] =
                    <<<<{0}, 0>>, <<{0}, 100>>, <<{0}, 200>>, <<{1}, 0>>, <<{1}, 50>>>>
              /\ flatzinc_df[1].objective_lb = {5}
              /\ flatzinc_df[1].objective_ub = {10}
              /\ IsNumber(run_df[1].objective_score, 0)
              /\ IsFraction(run_df[2].objective_score, 3, 5)

\* The commands that plot the tables.
Plotting == {"heatmap_cmd", "flatzinc_cmd", "subplots_cmd", "box_cmd"}

\* The tables are as the builders made them / carry the columns of improve.
RawTables ==
    /\ \A i \in 1..Len(problem_df) : "type" \notin DOMAIN problem_df[i]
    /\ \A i \in 1..Len(flatzinc_df) : "problem_type" \notin DOMAIN flatzinc_df[i]
    /\ \A i \in 1..Len(run_df) : DOMAIN run_df[i] = {"id", "flatzinc_id", "configuration_id"}

EnrichedTables ==
    /\ \A i \in 1..Len(problem_df) : "type" \in DOMAIN problem_df[i]
    /\ \A i \in 1..Len(flatzinc_df) : "objective_bb" \in DOMAIN flatzinc_df[i]
    /\ \A i \in 1..Len(run_df) :
          {"objective_score", "autc_score", "audc_score"} \subseteq DOMAIN run_df[i]

\* C12: improve is called 0 or 1 times on the Database that main creates,
\* on every command line: exactly once before a plotting command reads the
\* tables, exactly once by the time describe or print without --basic read
\* them, never for describe or print with --basic; the tables are raw
\* before the call and enriched once it has returned.
C12_ImproveAtMostOnce ==
    /\ num_improve \in {0, 1}
    /\ num_improve = 0 => RawTables
    /\ \A a \in args :
          /\ (a.cmd_callback \in Plotting /\ pc \in {"done", "exit"}) =>
                 num_improve = 1 /\ EnrichedTables
          /\ (a.cmd_callback \in {"describe_cmd", "print_cmd"} /\ a.basic) =>
                 num_improve = 0
          /\ (a.cmd_callback \in {"describe_cmd", "print_cmd"} /\ ~a.basic
                /\ pc = "exit") => num_improve = 1 /\ EnrichedTables
          /\ (a.cmd_callback = "dev_cmd" /\ pc = "exit") => num_improve = 1

\* C12 witness: describe without --basic has read the tables after the one
\* call of improve, made by describe_cmd itself.
C12_Witness ==
    /\ pc = "exit"
    /\ args = {[cmd_callback |-> "describe_cmd", basic |-> FALSE]}
    /\ num_improve = 1
    /\ caller = "describe_cmd"
    /\ EnrichedTables

\* C13: if a pass of improve fails, the Database is not left half-enriched:
\* after the failure each of its tables has the value it had before the
\* call of improve.
C13_FailureLeavesTablesAsBuilt ==
    (pc = "failed" /\ num_improve = 1) => Tables = built[Len(built)]

\* The positions of the passes of improve.
ImprovePasses ==
    {"add_problem_type", "propagate_type_to_flatzinc", "add_objective_bounds",
     "add_num_solutions", "add_objective_score", "add_bounds_time",
     "add_bounds_num_decisions", "add_auc_score_time",
     "add_auc_score_num_decisions"}

\* A step taken by a pass of improve keeps the event, raw and configuration
\* tables.
PassKeepsEvents ==
    (pc \in ImprovePasses) =>
        /\ event_df' = event_df
        /\ raw_df' = raw_df
        /\ configuration_df' = configuration_df

\* C14: improve and each of its passes leave the event table, the raw table
\* and the configuration table unchanged; only the problem, instance and
\* run tables are replaced.
C14_ImproveKeepsEvents == [][PassKeepsEvents]_vars

\* C14 witness: improve has returned with the problem, instance and run
\* tables replaced and the event and configuration tables as built.
C14_Witness ==
    /\ pc = "done"
    /\ num_improve = 1
    /\ event_df # <<>>
    /\ event_df = built[1].event_df
    /\ configuration_df = built[1].configuration_df
    /\ problem_df # built[1].problem_df
    /\ flatzinc_df # built[1].flatzinc_df
    /\ run_df # built[1].run_df

\* The pass that follows each pass of improve; the last one returns.
PassAfter(p) ==
    CASE p = "add_problem_type" -> {"propagate_type_to_flatzinc"}
      [] p = "propagate_type_to_flatzinc" -> {"add_objective_bounds"}
      [] p = "add_objective_bounds" -> {"add_num_solutions"}
      [] p = "add_num_solutions" -> {"add_objective_score"}
      [] p = "add_objective_score" -> {"add_bounds_time"}
      [] p = "add_bounds_time" -> {"add_bounds_num_decisions"}
      [] p = "add_bounds_num_decisions" -> {"add_auc_score_time"}
      [] p = "add_auc_score_time" -> {"add_auc_score_num_decisions"}
      [] p = "add_auc_score_num_decisions" -> {"done", "exit"}

\* A pass of improve is followed by the next one, unless it fails.
PassesInOrder ==
    (pc \in ImprovePasses) => pc' \in PassAfter(pc) \cup {"failed"}

\* Every row of a frame has the columns.
HasColumns(df, cols) == \A i \in 1..Len(df) : cols \subseteq DOMAIN df[i]

\* The columns a pass reads are there when it starts.
ColumnsBeforeUse ==
    /\ pc = "propagate_type_to_flatzinc" => HasColumns(problem_df, {"type"})
    /\ pc = "add_objective_bounds" => HasColumns(flatzinc_df, {"problem_type"})
    /\ pc = "add_objective_score" =>
          /\ HasColumns(run_df, {"objective_bb"})
          /\ HasColumns(flatzinc_df, {"objective_lb", "objective_ub", "objective_bb"})
    /\ pc = "add_auc_score_time" =>
          /\ HasColumns(run_df, {"objective_bb", "objective_wb", "time_fsol", "time_lsol"})
          /\ HasColumns(flatzinc_df, {"problem_type", "objective_lb", "objective_ub",
                                      "time_fsol", "time_lsol"})
    /\ pc = "add_auc_score_num_decisions" =>
          /\ HasColumns(run_df, {"num_decisions_fsol", "num_decisions_lsol"})
          /\ HasColumns(flatzinc_df, {"num_decisions_fsol", "num_decisions_lsol"})

\* C15: improve executes its passes in the order add_problem_type,
\* propagate_type_to_flatzinc, add_objective_bounds, add_num_solutions,
\* add_objective_score, add_bounds(time), add_bounds(num_decisions),
\* add_auc_score(time), add_auc_score(num_decisions), and no pass reads a
\* column before the pass that produces it has completed.
C15_PassOrder == [][PassesInOrder]_vars /\ []ColumnsBeforeUse

\* C15 witness: the last pass is about to run on tables that carry the
\* columns of the eight passes before it.
C15_Witness ==
    /\ pc = "add_auc_score_num_decisions"
    /\ run_df # <<>>
    /\ HasColumns(run_df, {"objective_bb", "num_solutions", "objective_score",
                           "time_fsol", "num_decisions_lsol", "autc_score"})
    /\ HasColumns(flatzinc_df, {"problem_type", "objective_bb", "time_fsol",
                                "num_decisions_lsol"})
    /\ HasColumns(problem_df, {"type"})

\* A nullable integer is at least / at most another, where both are there.
AtLeast(x, y) == x # Null => (y # Null /\ The(x) >= The(y))

AtMost(x, y) == x # Null => (y # Null /\ The(x) <= The(y))

\* The six containments add_auc_score asserts, for the columns fsol and
\* lsol of a metric.
Contained(fsol, lsol) ==
    \A i \in 1..Len(run_df) :
        LET u == run_df[i]
            f == InstanceOfRun(u)
        IN  /\ AtLeast(u[fsol], f[fsol])
            /\ AtMost(u[lsol], f[lsol])
            /\ u.objective_bb # Null /\ u.objective_wb # Null
            /\ AtLeast(u.objective_wb, f.objective_lb)
            /\ AtLeast(u.objective_bb, f.objective_lb)
            /\ AtMost(u.objective_wb, f.objective_ub)
            /\ AtMost(u.objective_bb, f.objective_ub)

\* C16: whenever add_auc_score runs inside improve, its six containment
\* preconditions hold for every run (first solution not before the
\* instance's, last solution not after the instance's, objective_bb and
\* objective_wb within the instance's objective bounds), so its assertions
\* never fail.
C16_AucPreconditions ==
    /\ pc = "add_auc_score_time" => Contained("time_fsol", "time_lsol")
    /\ pc = "add_auc_score_num_decisions" =>
          Contained("num_decisions_fsol", "num_decisions_lsol")
    /\ error # "run bounds are outside of the flatzinc bounds"

\* C16 witness: add_auc_score is about to run on an instance with a run
\* whose first solution comes after the instance's and a run whose last
\* solution comes before the instance's.
C16_Witness ==
    /\ pc = "add_auc_score_time"
    /\ \E i, j \in 1..Len(run_df) :
          LET f == InstanceOfRun(run_df[i])
          IN  /\ run_df[j].flatzinc_id = run_df[i].flatzinc_id
              /\ run_df[i].time_fsol # Null /\ run_df[j].time_lsol # Null
              /\ The(run_df[i].time_fsol) > The(f.time_fsol)
              /\ The(run_df[j].time_lsol) < The(f.time_lsol)
              /\ The(f.objective_ub) > The(f.objective_lb)

\* C17: when an instance's objective_ub equals its objective_lb,
\* add_objective_score gives every run of the instance a defined
\* objective_score, 0, and not the result of a division by zero.
C17_ZeroWidthScore ==
    \A i \in 1..Len(run_df) :
        LET u == run_df[i]
            f == InstanceOfRun(u)
        IN  (/\ "objective_score" \in DOMAIN u
             /\ f.objective_lb # Null
             /\ f.objective_ub = f.objective_lb) =>
                IsNumber(u.objective_score, 0)

\* The events, and the solution events, of the run of the given id, in the
\* order of the event table.
EventsOfRun(id) == SelectSeq(event_df, LAMBDA e : e.run_id = {id})

SolutionsOfRun(id) ==
    SelectSeq(event_df, LAMBDA e : e.run_id = {id} /\ e.type = "new_solution")

\* Two sequences of events carry the same values of a metric, which do not
\* decrease along them.
SameMetric(s, r, col) ==
    /\ Len(s) = Len(r)
    /\ \A k \in 1..Len(s) : s[k][col] = r[k][col]
    /\ \A k \in 1..(Len(s) - 1) : s[k][col] <= s[k + 1][col]

\* The objective of s is at least as good as the one of r at every event:
\* lower when minimizing, higher when maximizing.
AsGood(s, r, type) ==
    /\ Len(s) = Len(r)
    /\ \A k \in 1..Len(s) :
          IF type = {"minimize"} THEN s[k].objective <= r[k].objective
          ELSE s[k].objective >= r[k].objective

\* A score is a finite number / two such scores in order.
Finite(x) == x # Null /\ The(x).den > 0

ScoreAtMost(x, y) == The(x).num * The(y).den <= The(y).num * The(x).den

\* The pairs of runs of one instance that carry a finite score of the given
\* name and whose solutions have the same values of the metric.
Comparable(i, j, col, name) ==
    /\ run_df[i].flatzinc_id = run_df[j].flatzinc_id
    /\ name \in DOMAIN run_df[i] /\ name \in DOMAIN run_df[j]
    /\ Finite(run_df[i][name]) /\ Finite(run_df[j][name])
    /\ SameMetric(SolutionsOfRun(run_df[i].id), SolutionsOfRun(run_df[j].id), col)

\* A higher score is better: the run that is as good at every solution has
\* the score that is at least the other's.
HigherIsBetter(col, name) ==
    \A i, j \in 1..Len(run_df) :
        (/\ Comparable(i, j, col, name)
         /\ AsGood(SolutionsOfRun(run_df[i].id), SolutionsOfRun(run_df[j].id),
                   TypeOfProblem(ProblemIdOfRun(run_df[i])))) =>
            ScoreAtMost(run_df[j][name], run_df[i][name])

\* A lower score is better: the run that is as good at every event has the
\* score that is at most the other's.
LowerIsBetter(col, name) ==
    \A i, j \in 1..Len(run_df) :
        (/\ Comparable(i, j, col, name)
         /\ AsGood(EventsOfRun(run_df[i].id), EventsOfRun(run_df[j].id),
                   TypeOfProblem(ProblemIdOfRun(run_df[i])))) =>
            ScoreAtMost(run_df[i][name], run_df[j][name])

\* C18 as stated: after the direction transformation of add_auc_score a
\* higher score is better in both directions: of two runs of one instance
\* with solutions at the same metric values, the one whose objective is at
\* least as good at every solution event has the greater or equal AUC score.
C18_HigherScoreIsBetter ==
    /\ HigherIsBetter("time", "autc_score")
    /\ HigherIsBetter("num_decisions", "audc_score")

\* C18 amended: a lower score is better in both directions: of two runs of
\* one instance with finite scores and with solutions at the same,
\* non-decreasing, metric values, the one whose objective is at least as good
\* at every event has the lower or equal AUC score.
C18_LowerScoreIsBetter ==
    /\ LowerIsBetter("time", "autc_score")
    /\ LowerIsBetter("num_decisions", "audc_score")

\* C18 witness: of two scored runs of one instance with solutions at the
\* same times, one is as good as the other at every event and strictly
\* better at one, and has the strictly lower score.
C18_Witness ==
    /\ pc = "done"
    /\ \E i, j \in 1..Len(run_df) :
          /\ Comparable(i, j, "time", "autc_score")
          /\ AsGood(EventsOfRun(run_df[i].id), EventsOfRun(run_df[j].id),
                    TypeOfProblem(ProblemIdOfRun(run_df[i])))
          /\ \E k \in 1..Len(SolutionsOfRun(run_df[i].id)) :
                SolutionsOfRun(run_df[i].id)[k].objective #
                    SolutionsOfRun(run_df[j].id)[k].objective
          /\ ~ScoreAtMost(run_df[j].autc_score, run_df[i].autc_score)

\* The raw rows whose (configuration, problem, instance) triple resolves to
\* no run: a null never matches in a join.
JoinMisses ==
    {i \in 1..Len(raw_df) : raw_df[i].problem = Null \/ raw_df[i].flatzinc = Null}

NullRunEvents == {i \in 1..Len(event_df) : event_df[i].run_id = Null}

\* The event table keeps the raw rows that resolve to no run, each with a
\* null run reference.
JoinMissesKept ==
    /\ Len(event_df) = Len(raw_df)
    /\ Cardinality(NullRunEvents) = Cardinality(JoinMisses)

\* C19: make_event_df keeps every raw row whose (configuration, problem,
\* instance) triple fails to resolve to a run, giving it a null run
\* reference, never drops such a row, and surfaces the miss to the caller
\* as a warning (a line on the standard error or an error).
C19_JoinMissKeptAndWarned ==
    (pc = "read" /\ JoinMisses # {}) =>
        /\ JoinMissesKept
        /\ stderr # <<>> \/ error # "none"

\* The part of C19 that the code has: the rows are kept.
C19_JoinMissKept == (pc = "read" /\ JoinMisses # {}) => JoinMissesKept

\* The event table of the Database has been built.
EventTableBuilt ==
    \/ pc \in {"read", "done", "exit"} \cup ImprovePasses
    \/ pc = "failed" /\ num_improve = 1

\* The raw rows of a run: those that carry the names of its configuration,
\* of its instance and of the problem of its instance.
RawRowsOfRun(r) ==
    {i \in 1..Len(raw_df) :
        \E f \in 1..Len(flatzinc_df), c \in 1..Len(configuration_df),
           p \in 1..Len(problem_df) :
            /\ flatzinc_df[f].id = r.flatzinc_id
            /\ configuration_df[c].id = r.configuration_id
            /\ flatzinc_df[f].problem_id = {problem_df[p].id}
            /\ raw_df[i].configuration = configuration_df[c].name
            /\ raw_df[i].flatzinc = flatzinc_df[f].name
            /\ raw_df[i].problem = problem_df[p].name}

EventIdsOfRun(r) == {i \in 1..Len(event_df) : event_df[i].run_id = {r.id}}

\* The (configuration, problem, instance) triples of the raw table.
RawTriples ==
    {<<raw_df[i].configuration, raw_df[i].problem, raw_df[i].flatzinc>> :
        i \in 1..Len(raw_df)}

\* C20: for a raw table without null keys, the event table has exactly one
\* row per raw row, each of a run and as many for a run as the raw table has
\* rows of it; there is one run per triple of the raw table and every run
\* has at least one event, so that every run gets a non-null objective_lb
\* and objective_ub from add_objective_bounds and a non-null num_solutions
\* from add_num_solutions.
C20_OneEventPerRawRow ==
    (EventTableBuilt /\ JoinMisses = {}) =>
        /\ Len(event_df) = Len(raw_df)
        /\ NullRunEvents = {}
        /\ Len(run_df) = Cardinality(RawTriples)
        /\ \A i \in 1..Len(run_df) :
              /\ EventIdsOfRun(run_df[i]) # {}
              /\ Cardinality(EventIdsOfRun(run_df[i])) =
                     Cardinality(RawRowsOfRun(run_df[i]))
              /\ "objective_lb" \in DOMAIN run_df[i] =>
                     run_df[i].objective_lb # Null /\ run_df[i].objective_ub # Null
              /\ "num_solutions" \in DOMAIN run_df[i] =>
                     run_df[i].num_solutions # Null

\* Two runs of two rows each, of which one has a start event only, have
\* their bounds and their number of solutions.
C20_Witness ==
    /\ pc = "add_objective_score"
    /\ JoinMisses = {}
    /\ Len(run_df) = 2
    /\ Len(event_df) >= 3
    /\ \E i \in 1..Len(run_df) :
          /\ \A e \in EventIdsOfRun(run_df[i]) : event_df[e].type = "start"
          /\ run_df[i].num_solutions # Null
          /\ run_df[i].objective_lb # Null

\* improve has returned without error.
Improved == pc = "done" /\ num_improve = 1

\* The tables as the builders left them, before improve.
AsBuiltTables == built[Len(built)]

\* A table has the rows of another in the same order, with the same values
\* in the columns keys, and no fewer columns.
SameRowsInOrder(now, before, keys) ==
    /\ Len(now) = Len(before)
    /\ \A i \in 1..Len(now) :
          /\ DOMAIN before[i] \subseteq DOMAIN now[i]
          /\ \A k \in keys : now[i][k] = before[i][k]

\* A table has the rows of another, each once, in some order.
SameRowsInSomeOrder(now, before, keys) ==
    /\ Len(now) = Len(before)
    /\ \A i \in 1..Len(before) :
          Cardinality({j \in 1..Len(now) :
                         /\ DOMAIN before[i] \subseteq DOMAIN now[j]
                         /\ \A k \in keys : now[j][k] = before[i][k]}) = 1

\* C21: a successful improve preserves the rows of the problem, instance
\* and run tables: each has the same ids in the same order and the same key
\* columns as before the call, the passes only add columns, and no row is
\* dropped or duplicated.
C21_ImprovePreservesRows ==
    Improved =>
        /\ SameRowsInOrder(problem_df, AsBuiltTables.problem_df, {"id", "name"})
        /\ SameRowsInOrder(flatzinc_df, AsBuiltTables.flatzinc_df,
                           {"id", "name", "problem_id"})
        /\ SameRowsInOrder(run_df, AsBuiltTables.run_df,
                           {"id", "flatzinc_id", "configuration_id"})

\* The same up to the order of the rows.
C21_RowsUpToOrder ==
    Improved =>
        /\ SameRowsInSomeOrder(problem_df, AsBuiltTables.problem_df, {"id", "name"})
        /\ SameRowsInSomeOrder(flatzinc_df, AsBuiltTables.flatzinc_df,
                               {"id", "name", "problem_id"})
        /\ SameRowsInSomeOrder(run_df, AsBuiltTables.run_df,
                               {"id", "flatzinc_id", "configuration_id"})

\* The same up to the order of the rows, for raw tables without null keys.
C21_RowsUpToOrderWithoutNulls == JoinMisses = {} => C21_RowsUpToOrder

\* A score lies in [0, 1].
InUnitInterval(x) ==
    x # Null /\ The(x).den > 0 /\ 0 <= The(x).num /\ The(x).num <= The(x).den

\* The instance of a run has a rectangle of nonzero area for the metric.
NonzeroRectangle(u, col) ==
    LET f == InstanceOfRun(u)
    IN  /\ f.objective_ub # Null /\ f.objective_lb # Null
        /\ f[Fsol(col)] # Null /\ f[Lsol(col)] # Null
        /\ The(f.objective_ub) # The(f.objective_lb)
        /\ The(f[Lsol(col)]) # The(f[Fsol(col)])

\* The metric does not decrease along the events of a run, taken in the
\* order of the event table.
NonDecreasing(id, col) ==
    LET s == EventsOfRun(id)
    IN  \A k \in 1..(Len(s) - 1) : s[k][col] <= s[k + 1][col]

\* The score of the given name, of the metric col, lies in [0, 1] for the
\* runs of the set Runs that have a solution, on instances of nonzero
\* rectangle.
ScoresInUnitInterval(col, name, Runs) ==
    \A i \in Runs :
        (/\ name \in DOMAIN run_df[i]
         /\ SolutionsOfRun(run_df[i].id) # <<>>
         /\ NonzeroRectangle(run_df[i], col)) =>
            InUnitInterval(run_df[i][name])

\* C22: for every run with at least one new_solution event, on an instance
\* whose rectangle area for the metric is nonzero and whose metric does not
\* decrease along the run's events in time order, the area of add_auc_score
\* lies between 0 and the rectangle area: autc_score and audc_score lie in
\* [0, 1].
C22_AucScoreInUnitInterval ==
    /\ ScoresInUnitInterval("time", "autc_score",
          {i \in 1..Len(run_df) : NonDecreasing(run_df[i].id, "time")})
    /\ ScoresInUnitInterval("num_decisions", "audc_score",
          {i \in 1..Len(run_df) : NonDecreasing(run_df[i].id, "num_decisions")})

\* The same without the condition on the metric: it fails for the runs
\* whose num_decisions decrease in time order.
C22_WhateverTheMetric ==
    /\ ScoresInUnitInterval("time", "autc_score", 1..Len(run_df))
    /\ ScoresInUnitInterval("num_decisions", "audc_score", 1..Len(run_df))

\* C22 witness: a run with two solutions has scores strictly between 0 and
\* 1 for both metrics.
C22_Witness ==
    /\ pc = "done"
    /\ \E i \in 1..Len(run_df) :
          /\ "audc_score" \in DOMAIN run_df[i]
          /\ Len(SolutionsOfRun(run_df[i].id)) = 2
          /\ NonDecreasing(run_df[i].id, "num_decisions")
          /\ NonzeroRectangle(run_df[i], "time")
          /\ NonzeroRectangle(run_df[i], "num_decisions")
          /\ InUnitInterval(run_df[i].autc_score)
          /\ InUnitInterval(run_df[i].audc_score)
          /\ 0 < The(run_df[i].autc_score).num
          /\ The(run_df[i].autc_score).num < The(run_df[i].autc_score).den
          /\ 0 < The(run_df[i].audc_score).num
          /\ The(run_df[i].audc_score).num < The(run_df[i].audc_score).den

\* The rows of the run table that belong to the instance of the given id.
RunRowsOfInstance(id) == {i \in 1..Len(run_df) : run_df[i].flatzinc_id = id}

\* The instance has an objective range of nonzero width.
NonzeroRange(f) ==
    /\ "objective_ub" \in DOMAIN f
    /\ f.objective_ub # Null /\ f.objective_lb # Null
    /\ The(f.objective_ub) > The(f.objective_lb)

\* add_objective_score has added its column to the run table.
Scored == run_df # <<>> /\ HasColumns(run_df, {"objective_score"})

\* C23: for every run of an instance whose objective_ub is strictly
\* greater than its objective_lb, objective_score lies in [0, 1], and at
\* least one run of each such instance has objective_score 0.
C23_ObjectiveScoreInUnitInterval ==
    Scored =>
        \A k \in 1..Len(flatzinc_df) :
            NonzeroRange(flatzinc_df[k]) =>
                /\ \A i \in RunRowsOfInstance(flatzinc_df[k].id) :
                      InUnitInterval(run_df[i].objective_score)
                /\ \E i \in RunRowsOfInstance(flatzinc_df[k].id) :
                      IsNumber(run_df[i].objective_score, 0)

\* C23 witness: of the two runs of an instance of nonzero range one has the
\* score 0 and the other a score strictly between 0 and 1.
C23_Witness ==
    /\ Scored
    /\ \E k \in 1..Len(flatzinc_df) :
          /\ NonzeroRange(flatzinc_df[k])
          /\ \E i, j \in RunRowsOfInstance(flatzinc_df[k].id) :
                /\ IsNumber(run_df[i].objective_score, 0)
                /\ InUnitInterval(run_df[j].objective_score)
                /\ 0 < The(run_df[j].objective_score).num
                /\ The(run_df[j].objective_score).num
                       < The(run_df[j].objective_score).den

\* A run of the run table has events and none of them is a solution.
StartOnly(u) == EventsOfRun(u.id) # <<>> /\ SolutionsOfRun(u.id) = <<>>

\* The values of a metric over the solutions of the runs of an instance.
SolutionValues(id, col) ==
    {event_df[k][col] :
        k \in {e \in 1..Len(event_df) :
                 /\ event_df[e].type = "new_solution"
                 /\ \E i \in RunRowsOfInstance(id) :
                       event_df[e].run_id = {run_df[i].id}}}

\* The passes that read the solutions: add_bounds and add_auc_score.
SolutionPasses ==
    {"add_bounds_time", "add_bounds_num_decisions", "add_auc_score_time",
     "add_auc_score_num_decisions"}

\* A step of these passes on a run table with a run without solutions does
\* not fail and keeps the runs.
StartOnlyRunPasses ==
    (/\ pc \in SolutionPasses
     /\ \E i \in 1..Len(run_df) : StartOnly(run_df[i])) =>
        /\ pc' # "failed"
        /\ Len(run_df') = Len(run_df)
        /\ {run_df'[i].id : i \in 1..Len(run_df')} =
              {run_df[i].id : i \in 1..Len(run_df)}

\* The columns of a run without solutions, and of its instance, as far as
\* the passes have added them.
StartOnlyRunColumns ==
    \A i \in 1..Len(run_df) :
        LET u == run_df[i]
            f == InstanceOfRun(u)
            NullIfThere(row, col) == col \in DOMAIN row => row[col] = Null
        IN  StartOnly(u) =>
              /\ \A col \in {"time_fsol", "time_lsol", "num_decisions_fsol",
                              "num_decisions_lsol", "autc_score", "audc_score"} :
                    NullIfThere(u, col)
              /\ \A col \in {"time", "num_decisions"} :
                    Fsol(col) \in DOMAIN f =>
                       /\ f[Fsol(col)] = MinOf(SolutionValues(f.id, col))
                       /\ f[Lsol(col)] = MaxOf(SolutionValues(f.id, col))
              /\ "objective_lb" \in DOMAIN u =>
                    /\ u.objective_lb = MinOf(ObjectivesOfRun(u.id))
                    /\ u.objective_ub = MaxOf(ObjectivesOfRun(u.id))
                    /\ u.objective_lb # Null
              /\ "objective_lb" \in DOMAIN f =>
                    \A o \in ObjectivesOfRun(u.id) :
                        /\ f.objective_lb # Null /\ f.objective_ub # Null
                        /\ The(f.objective_lb) <= o /\ o <= The(f.objective_ub)

\* C24: a run that has only start events does not make improve fail in the
\* passes that read the solutions: it stays in the run table with null
\* fsol, lsol, autc_score and audc_score, its instance's fsol and lsol are
\* those of the solutions of the other runs, and the objectives of its
\* events count in its own and in its instance's objective bounds.
C24_StartOnlyRun == [][StartOnlyRunPasses]_vars /\ []StartOnlyRunColumns

\* C24 witness: improve has returned on an instance with a run of two start
\* events, which alone reaches the instance's upper objective bound, and a
\* run with solutions that has its scores.
C24_Witness ==
    /\ Improved
    /\ \E i, j \in 1..Len(run_df) :
          LET f == InstanceOfRun(run_df[i])
          IN  /\ StartOnly(run_df[i])
              /\ Len(EventsOfRun(run_df[i].id)) = 2
              /\ run_df[j].flatzinc_id = run_df[i].flatzinc_id
              /\ run_df[i].audc_score = Null /\ run_df[i].time_fsol = Null
              /\ run_df[j].audc_score # Null
              /\ f.time_fsol # Null
              /\ run_df[i].objective_ub = f.objective_ub
              /\ run_df[j].objective_ub # f.objective_ub

====
